---- MODULE Spec2Model ----
(***************************************************************************)
(* Progression & assessment engine of the learning platform               *)
(* (src/Learning.py): quiz and exam submission, advance/unlock, remedial   *)
(* submodule and remedial module insertion, content completion.            *)
(*                                                                         *)
(* The store is the MongoDB database: the course document's modules array, *)
(* the progress_tracking collection and the module_progress collection.    *)
(* A request handler is a sequence of store operations; each store         *)
(* operation is one atomic step, and the handler's local variables live in *)
(* req[p] between the steps.                                               *)
(***************************************************************************)
EXTENDS Integers, Sequences, FiniteSets, TLC

VARIABLES user_courses,       \* the modules array of the stored course document
          progress_tracking,  \* collection, documents in insertion order
          module_progress,    \* collection, documents in insertion order
          submodule_tests,    \* collection: the stored quiz of each submodule
          module_exams,       \* collection: the stored exam of each module
          pc,                 \* pc[p]: position of the handler run by worker p
          req,                \* req[p]: parameters and local variables of that handler
          nextId,             \* next ObjectId() to hand out for course nodes
          started,            \* number of requests received so far
          current             \* currentModuleId, currentSubModuleId of the course

vars == <<user_courses, progress_tracking, module_progress, submodule_tests,
          module_exams, pc, req, nextId, started, current>>

store == <<user_courses, progress_tracking, module_progress>>

tests == <<submodule_tests, module_exams>>

----------------------------------------------------------------------------
(* Bounds *)

MaxRequests == 3        \* requests received in one behaviour
MaxRemedialSubs == 1    \* submodules the Content Generator returns for a remedial module

Procs == {1, 2}         \* request workers

\* The curricula the Content Generator returned at course creation: the
\* number of submodules of each module, in order.
CourseShapes == {<<2, 1>>}

\* The curricula the Content Generator may return when a course is created
\* or its curriculum is rebuilt (a module may come without submodules).
CurriculumShapes == {<<1>>, <<2, 1>>, <<0, 2>>, <<1, 2, 1>>}

----------------------------------------------------------------------------
(* Helpers over sequences *)

Min(S) == CHOOSE x \in S : \A y \in S : x <= y

Range(seq) == {seq[i] : i \in 1..Len(seq)}

\* next((i for i, x in enumerate(seq) if test(x)), -1), as a 1-based index,
\* 0 for none; matching is the set of the elements that pass the test
FirstIndex(seq, matching) ==
    LET I == {i \in 1..Len(seq) : seq[i] \in matching}
    IN IF I = {} THEN 0 ELSE Min(I)

\* list.insert(pos0, x) and $push with $position pos0 (0-based; past the end appends)
InsertAt(seq, pos0, x) ==
    LET k == IF pos0 > Len(seq) THEN Len(seq) ELSE pos0
    IN SubSeq(seq, 1, k) \o <<x>> \o SubSeq(seq, k + 1, Len(seq))

RECURSIVE SumTo(_, _)
SumTo(shape, i) == IF i = 0 THEN 0 ELSE shape[i] + SumTo(shape, i - 1)

RECURSIVE Flatten(_)
Flatten(seqs) == IF seqs = <<>> THEN <<>> ELSE Head(seqs) \o Flatten(Tail(seqs))

----------------------------------------------------------------------------
(* Course document *)

NoId == 0

NewSubmodule(id, locked) ==
    [subModuleId |-> id, isLocked |-> locked, isRemedial |-> FALSE,
     relatedToSubModuleId |-> NoId]

NewModule(id, locked, subs) ==
    [moduleId |-> id, isLocked |-> locked, isRemedial |-> FALSE,
     parentModuleId |-> NoId, subModules |-> subs]

\* generate_curriculum: module i gets shape[i] submodules; only module[0] and
\* its submodule[0] are created unlocked.
generate_curriculum(shape) ==
    [i \in 1..Len(shape) |->
        NewModule(i, i > 1,
            [j \in 1..shape[i] |->
                NewSubmodule(Len(shape) + SumTo(shape, i - 1) + j,
                             ~(i = 1 /\ j = 1))])]

\* a rebuild that unlocks the first submodule of every module ('isLocked': j > 0)
modify_curriculum_first_of_each(shape, first_id) ==
    [i \in 1..Len(shape) |->
        NewModule(first_id + i - 1, i > 1,
            [j \in 1..shape[i] |->
                NewSubmodule(first_id + Len(shape) + SumTo(shape, i - 1) + j - 1,
                             j > 1)])]

\* modify_curriculum, lines 675-716: the modules are rebuilt with new
\* ObjectIds (first_id onwards); only module[0] and its submodule[0] are
\* created unlocked.
modify_curriculum(shape, first_id) ==
    [i \in 1..Len(shape) |->
        NewModule(first_id + i - 1, i > 1,
            [j \in 1..shape[i] |->
                NewSubmodule(first_id + Len(shape) + SumTo(shape, i - 1) + j - 1,
                             ~(i = 1 /\ j = 1))])]

\* lines 499-500 and 726-727: the position pointers written with a module
\* list, NoId for None
CurrentOf(modules) ==
    [currentModuleId |-> IF modules # <<>> THEN modules[1].moduleId ELSE NoId,
     currentSubModuleId |->
         IF modules # <<>> /\ modules[1].subModules # <<>>
         THEN modules[1].subModules[1].subModuleId ELSE NoId]

ModuleIds(course) == {course[i].moduleId : i \in 1..Len(course)}

\* every submodule of the course, in linear order
AllSubs(course) == Flatten([i \in 1..Len(course) |-> course[i].subModules])

SubIds(course) == {AllSubs(course)[i].subModuleId : i \in 1..Len(AllSubs(course))}

\* next((m for m in course['modules'] if str(m['moduleId']) == module_id), None)
FindModule(course, module_id) ==
    FirstIndex(course, {m \in Range(course) : m.moduleId = module_id})

\* next((s for s in subModules if str(s['subModuleId']) == submodule_id), None)
FindSubmodule(subs, submodule_id) ==
    FirstIndex(subs, {s \in Range(subs) : s.subModuleId = submodule_id})

----------------------------------------------------------------------------
(* Store primitives *)

NoDoc == [_id |-> 0]

\* collection.find_one(filter): the first matching document in natural order;
\* matching is the set of the documents the filter selects
FindOne(coll, matching) ==
    LET i == FirstIndex(coll, matching)
    IN IF i = 0 THEN NoDoc ELSE coll[i]

\* insert_one: the new document gets a fresh _id
InsertOne(coll, doc) == Append(coll, [doc EXCEPT !._id = Len(coll) + 1])

\* update of the array elements selected by
\* 'modules.$[].subModules.$[sub]' with array_filters sub.subModuleId == id
UnlockSubmodule(course, id) ==
    [i \in 1..Len(course) |->
        [course[i] EXCEPT !.subModules =
            [j \in 1..Len(course[i].subModules) |->
                IF course[i].subModules[j].subModuleId = id
                THEN [course[i].subModules[j] EXCEPT !.isLocked = FALSE]
                ELSE course[i].subModules[j]]]]

\* a $push that matches no module: the course stays as it is
PushSubmoduleNoMatch(course, module_id, sub, pos0) == course

\* {'modules.moduleId': module_id} with $push {'modules.$.subModules':
\* {$each: [sub], $position: pos0}}: the first module with that id gets the
\* element; no module with that id, no update.
PushSubmodule(course, module_id, sub, pos0) ==
    LET i == FindModule(course, module_id)
    IN IF i = 0 THEN course
       ELSE [course EXCEPT ![i].subModules = InsertAt(@, pos0, sub)]

----------------------------------------------------------------------------
(* Tests and exams *)

\* the _id of the stored course, and an id no course has
CourseId == 1

UnknownCourseId == 2

\* a module or submodule id no course has
UnknownNodeId == 99

\* the longest answer list a client sends
MaxAnswers == 3

\* the number of requests with any input that are followed
MaxInputRequests == 2

\* the signed-in user who owns the stored course, and another signed-in user
Users == {"user", "other"}

\* one question of a stored test or exam; variant stands for its text,
\* options and correct answer
NewQuestion(type, variant) == [type |-> type, variant |-> variant]

\* the test document of a submodule (lines 2093-2101)
NewTest(submodule_id, questions) ==
    [_id |-> 0, userCourseId |-> CourseId, subModuleId |-> submodule_id,
     questions |-> questions]

\* the exam document of a module (lines 2525-2534)
NewExam(module_id, questions) ==
    [_id |-> 0, userCourseId |-> CourseId, moduleId |-> module_id,
     questions |-> questions]

\* a test was requested and stored for every submodule of the course
TestsOf(course, questions) ==
    [i \in 1..Len(AllSubs(course)) |->
        [NewTest(AllSubs(course)[i].subModuleId, questions) EXCEPT !._id = i]]

\* an exam was requested and stored for every module of the course
ExamsOf(course, questions) ==
    [i \in 1..Len(course) |->
        [NewExam(course[i].moduleId, questions) EXCEPT !._id = i]]

\* no grading call was made
NoGrade == [failed |-> FALSE, score |-> 0]

----------------------------------------------------------------------------
(* Requests *)

NoNode == [moduleId |-> NoId]

NoReq ==
    [kind |-> "none", user |-> "none", course_id |-> NoId,
     module_id |-> NoId, submodule_id |-> NoId,
     answers |-> 0,            \* len(answers)
     passed |-> FALSE,
     course |-> <<>>,          \* the course document the handler read
     progress |-> NoDoc,       \* the progress / module_progress document it read
     genFailed |-> FALSE,      \* the Content Generator call raised
     node |-> NoNode,          \* remedial module built, not yet stored
     modules |-> <<>>,         \* new_modules built by modify_curriculum
     remedial |-> NoId,        \* id of the remedial node this request inserted
     nextSub |-> NoId,         \* id of the submodule this request unlocked
     idx |-> 0,                \* loop index over the module's submodules
     action |-> "none",        \* response_data['action']
     questions |-> <<>>,       \* the questions returned by a get-test request
     given |-> <<>>,           \* the answers graded
     hint_count |-> 0,         \* hints reported for each question
     grade |-> NoGrade,        \* what the Content Generator gave as a grade
     scores |-> <<>>,          \* score_for_q of each question, in tenths
     correct |-> <<>>,         \* isCorrect of each question
     total |-> 0,              \* score x len(questions), in tenths
     candidate |-> FALSE,      \* the module check logged a remediation candidate
     test_data |-> <<>>,       \* the questions as the get-test response shows them
     result |-> "none"]        \* "ok" | "not_found" | "invalid" | "rejected"

Idle(p) == pc[p] \in {"idle", "done", "aborted"}

\* one handler at a time, on worker 1
Serial(p) == p = 1 /\ \A q \in Procs : Idle(q)

Finish(p, r) ==
    /\ pc' = [pc EXCEPT ![p] = "done"]
    /\ req' = [req EXCEPT ![p] = r]

Goto(p, label, r) ==
    /\ pc' = [pc EXCEPT ![p] = label]
    /\ req' = [req EXCEPT ![p] = r]

Receive(p) ==
    /\ Idle(p)
    /\ started < MaxRequests
    /\ started' = started + 1

----------------------------------------------------------------------------
(* submit_submodule_test *)

NewProgress(user, module_id, submodule_id) ==
    [_id |-> 0, userId |-> user, userCourseId |-> TRUE, courseId |-> FALSE,
     moduleId |-> module_id, subModuleId |-> submodule_id,
     status |-> "in_progress", testAttempts |-> 0, submoduleFailCount |-> 0,
     quizPassed |-> FALSE, remedialSubmoduleGenerated |-> FALSE,
     contentCompleted |-> FALSE, completedViaExam |-> FALSE,
     bestTestScore |-> 0, lastAttemptAnswers |-> 0]

\* a test lookup that returns whichever test is stored first
FindTestFirst(course_id, submodule_id) ==
    IF submodule_tests = <<>> THEN NoDoc ELSE submodule_tests[1]

\* a length check that lets every answer list through
AnswerCountMismatchNever(n_answers, questions) == FALSE

\* lines 2180 and 2761: if len(answers) != len(questions)
AnswerCountMismatch(n_answers, questions) == n_answers # Len(questions)

\* a test lookup that hides the test of a submodule once a remedial
\* submodule related to it is in the course
FindTestHiddenByRemedial(course_id, submodule_id) ==
    IF \E s \in Range(AllSubs(user_courses)) :
          s.isRemedial /\ s.relatedToSubModuleId = submodule_id
    THEN NoDoc
    ELSE FindOne(submodule_tests,
                 {d \in Range(submodule_tests) :
                      d.userCourseId = course_id /\ d.subModuleId = submodule_id})

\* lines 2159-2162: submodule_tests.find_one({'userCourseId', 'subModuleId'})
FindTest(course_id, submodule_id) ==
    FindOne(submodule_tests,
            {d \in Range(submodule_tests) :
                 d.userCourseId = course_id /\ d.subModuleId = submodule_id})

\* lines 2167 and 2745: user_courses.find_one({'_id': ObjectId(course_id)})
FindCourse(course_id) == IF course_id = CourseId THEN user_courses ELSE NoDoc

\* lines 2139-2216: no answers is refused; the test and the course are read,
\* the module and the submodule are looked up in the course read; an answer
\* list of another length than the question list is refused; the answers
\* are graded.
SubmitSubmoduleTest(p, user, course_id, module_id, submodule_id, n_answers, passed) ==
    /\ Receive(p)
    /\ LET r == [NoReq EXCEPT !.kind = "quiz", !.user = user,
                              !.course_id = course_id,
                              !.module_id = module_id,
                              !.submodule_id = submodule_id,
                              !.answers = n_answers]
           test == FindTest(course_id, submodule_id)
           course == FindCourse(course_id)
           mi == IF course = NoDoc THEN 0 ELSE FindModule(course, module_id)
           found == /\ test # NoDoc
                    /\ mi # 0
                    /\ FindSubmodule(course[mi].subModules, submodule_id) # 0
       IN IF n_answers = 0
          THEN Finish(p, [r EXCEPT !.result = "invalid"])
          ELSE IF ~found
          THEN Finish(p, [r EXCEPT !.result = "not_found"])
          ELSE IF AnswerCountMismatch(n_answers, test.questions)
          THEN Finish(p, [r EXCEPT !.result = "invalid"])
          ELSE Goto(p, "q_find", [r EXCEPT !.passed = passed, !.course = course])
    /\ UNCHANGED <<store, nextId, tests, current>>

\* lines 2219-2222: find_one({'userCourseId', 'subModuleId'})
QuizFindProgress(p) ==
    /\ pc[p] = "q_find"
    /\ LET progress ==
               FindOne(progress_tracking,
                       {d \in Range(progress_tracking) :
                            d.userCourseId /\ d.subModuleId = req[p].submodule_id})
       IN IF progress = NoDoc
          THEN Goto(p, "q_insert", req[p])
          ELSE Goto(p, "q_update", [req[p] EXCEPT !.progress = progress])
    /\ UNCHANGED <<store, nextId, started, tests, current>>

\* lines 2224-2236: insert_one(progress)
QuizInsertProgress(p) ==
    /\ pc[p] = "q_insert"
    /\ progress_tracking' =
           InsertOne(progress_tracking,
                     NewProgress(req[p].user, req[p].module_id, req[p].submodule_id))
    /\ Goto(p, "q_refetch", req[p])
    /\ UNCHANGED <<user_courses, module_progress, nextId, started, tests, current>>

\* line 2237: find_one({'subModuleId', 'userId'})
QuizRefetchProgress(p) ==
    /\ pc[p] = "q_refetch"
    /\ LET progress ==
               FindOne(progress_tracking,
                       {d \in Range(progress_tracking) :
                            d.subModuleId = req[p].submodule_id
                            /\ d.userId = req[p].user})
       IN Goto(p, "q_update", [req[p] EXCEPT !.progress = progress])
    /\ UNCHANGED <<store, nextId, started, tests, current>>

\* an update that clears quizPassed whenever the $set does not name it
SetProgressClearingPassed(coll, id, fields) ==
    [i \in 1..Len(coll) |->
        IF coll[i]._id = id
        THEN [k \in DOMAIN coll[i] |->
                 IF k \in DOMAIN fields THEN fields[k]
                 ELSE IF k = "quizPassed" THEN FALSE ELSE coll[i][k]]
        ELSE coll[i]]

\* update_one({'_id': id}, {'$set': ...}) on progress_tracking
SetProgress(coll, id, fields) ==
    [i \in 1..Len(coll) |->
        IF coll[i]._id = id
        THEN [k \in DOMAIN coll[i] |->
                 IF k \in DOMAIN fields THEN fields[k] ELSE coll[i][k]]
        ELSE coll[i]]

\* line 2332: if new_fail_count >= 1 and not remedial_already_generated
RemedialSubmoduleDue(new_fail_count, progress) ==
    new_fail_count >= 1 /\ ~progress.remedialSubmoduleGenerated

\* max(a, b) of lines 2275, 2315, 2946 and 3023
max(a, b) == IF a >= b THEN a ELSE b

\* lines 2213 and 2885: score = total / len(questions), kept exact in 600ths
\* of a point (total is in tenths; 60 is a multiple of every test length)
ScoreOf(total, n) == IF n = 0 THEN 0 ELSE total * (60 \div n)

\* lines 2239-2286 (passed) and 2306-2332 (failed): the attempt is written to
\* the progress document read before; the counters and the best score come
\* from that read.
QuizUpdateProgress(p) ==
    /\ pc[p] = "q_update"
    /\ LET progress == req[p].progress
           attempt_count == progress.testAttempts + 1
           new_fail_count == progress.submoduleFailCount + 1
           score == ScoreOf(req[p].total, req[p].answers)
       IN IF req[p].passed
          THEN /\ progress_tracking' =
                      SetProgress(progress_tracking, progress._id,
                          [testAttempts |-> attempt_count,
                           quizPassed |-> TRUE,
                           status |-> "completed",
                           bestTestScore |->
                               max(progress.bestTestScore, score),
                           lastAttemptAnswers |-> req[p].answers])
               /\ Goto(p, "q_unlock", req[p])
          ELSE /\ progress_tracking' =
                      SetProgress(progress_tracking, progress._id,
                          [testAttempts |-> attempt_count,
                           submoduleFailCount |-> new_fail_count,
                           bestTestScore |->
                               max(progress.bestTestScore, score),
                           lastAttemptAnswers |-> req[p].answers])
               /\ IF RemedialSubmoduleDue(new_fail_count, progress)
                  THEN Goto(p, "q_push", req[p])
                  ELSE Goto(p, "q_check", [req[p] EXCEPT !.action = "retry"])
    /\ UNCHANGED <<user_courses, module_progress, nextId, started, tests, current>>

\* a find_and_unlock_next_submodule that stays inside the module: the last
\* submodule of a module has no next one
NextSubmoduleIdInModule(course, module_id, current_submodule_id) ==
    LET mi == FindModule(course, module_id)
    IN IF mi = 0 THEN NoId
       ELSE LET submodules == course[mi].subModules
                current_index == FindSubmodule(submodules, current_submodule_id)
            IN IF current_index >= 1 /\ current_index < Len(submodules)
               THEN submodules[current_index + 1].subModuleId
               ELSE NoId

\* a find_and_unlock_next_submodule that steps over a remedial submodule
\* in the next position
NextSubmoduleIdOverRemedial(course, module_id, current_submodule_id) ==
    LET mi == FindModule(course, module_id)
    IN IF mi = 0 THEN NoId
       ELSE LET submodules == course[mi].subModules
                current_index == FindSubmodule(submodules, current_submodule_id)
                step == IF current_index >= 1 /\ current_index < Len(submodules)
                           /\ submodules[current_index + 1].isRemedial
                        THEN 2 ELSE 1
            IN IF current_index >= 1 /\ current_index + step <= Len(submodules)
               THEN submodules[current_index + step].subModuleId
               ELSE IF mi < Len(course) /\ Len(course[mi + 1].subModules) > 0
                    THEN course[mi + 1].subModules[1].subModuleId
                    ELSE NoId

\* find_and_unlock_next_submodule, lines 3063-3127, on the course the handler
\* read: the id of the submodule to unlock, NoId for none.
NextSubmoduleId(course, module_id, current_submodule_id) ==
    LET mi == FindModule(course, module_id)
    IN IF mi = 0 THEN NoId
       ELSE LET submodules == course[mi].subModules
                current_index == FindSubmodule(submodules, current_submodule_id)
            IN IF current_index >= 1 /\ current_index < Len(submodules)
               THEN submodules[current_index + 1].subModuleId
               ELSE IF mi < Len(course) /\ Len(course[mi + 1].subModules) > 0
                    THEN course[mi + 1].subModules[1].subModuleId
                    ELSE NoId

\* line 2300: find_and_unlock_next_submodule(db, course, module_id, submodule_id)
QuizUnlockNext(p) ==
    /\ pc[p] = "q_unlock"
    /\ LET next_id == NextSubmoduleId(req[p].course, req[p].module_id,
                                      req[p].submodule_id)
       IN /\ user_courses' = IF next_id = NoId THEN user_courses
                             ELSE UnlockSubmodule(user_courses, next_id)
          /\ Goto(p, "q_check",
                  [req[p] EXCEPT !.action = "continue", !.nextSub = next_id])
    /\ UNCHANGED <<progress_tracking, module_progress, nextId, started, tests, current>>

\* lines 3217-3228: the remedial submodule document
RemedialSubmodule(id, failed_id) ==
    [subModuleId |-> id, isLocked |-> FALSE, isRemedial |-> TRUE,
     relatedToSubModuleId |-> failed_id]

\* lines 3230-3232: position right after the failed submodule, in the
\* submodule list of the course the handler read (0-based)
RemedialPosition(course, module_id, failed_id) ==
    LET mi == FindModule(course, module_id)
        current_index == FindSubmodule(course[mi].subModules, failed_id) - 1
    IN current_index + 1

\* generate_and_insert_remedial_submodule, lines 3130-3271: the Content
\* Generator is called; when it raises, the fixed fallback lesson is used;
\* either way the remedial submodule is pushed into the stored course.
QuizInsertRemedial(p) ==
    /\ pc[p] = "q_push"
    /\ \E failed \in BOOLEAN :
          /\ user_courses' =
                 PushSubmodule(user_courses, req[p].module_id,
                               RemedialSubmodule(nextId, req[p].submodule_id),
                               RemedialPosition(req[p].course, req[p].module_id,
                                                req[p].submodule_id))
          /\ nextId' = nextId + 1
          /\ Goto(p, "q_flag",
                  [req[p] EXCEPT !.genFailed = failed, !.remedial = nextId,
                                 !.action = "remedial"])
    /\ UNCHANGED <<progress_tracking, module_progress, started, tests, current>>

\* lines 2350-2354: remedialSubmoduleGenerated is set on the document read before
QuizSetRemedialFlag(p) ==
    /\ pc[p] = "q_flag"
    /\ progress_tracking' =
           SetProgress(progress_tracking, req[p].progress._id,
               [remedialSubmoduleGenerated |-> TRUE])
    /\ Goto(p, "q_check", req[p])
    /\ UNCHANGED <<user_courses, module_progress, nextId, started, tests, current>>

\* line 2155: MODULE_FAIL_THRESHOLD
module_fail_threshold == 50

\* lines 3274-3321, check_module_level_performance: the mean of the best
\* scores above 0 of the module's non-remedial submodules is below the
\* threshold and every one of them has such a score. No stored module has
\* the keys of the existing_remedial query (isRemedialModule,
\* relatedToModuleId), so that lookup finds nothing.
check_module_level_performance(course, module_id, progress_docs, fail_threshold) ==
    LET mi == FindModule(course, module_id)
    IN IF mi = 0 THEN FALSE
       ELSE
         LET subs == course[mi].subModules
             non_remedial_submodules == {j \in 1..Len(subs) : ~subs[j].isRemedial}
             best == [j \in 1..Len(subs) |->
                        LET progress ==
                                FindOne(progress_docs,
                                    {d \in Range(progress_docs) :
                                        /\ d.userCourseId
                                        /\ d.subModuleId = subs[j].subModuleId})
                        IN IF j \in non_remedial_submodules /\ progress # NoDoc
                           THEN progress.bestTestScore ELSE 0]
             scored_count == Cardinality({j \in 1..Len(subs) : best[j] > 0})
             total_score == SumTo(best, Len(subs))
         IN /\ non_remedial_submodules # {}
            /\ scored_count # 0
            /\ total_score < fail_threshold * 600 * scored_count
            /\ scored_count = Cardinality(non_remedial_submodules)

\* a module check that stores a module for the candidate it finds
QuizCheckModulePerformanceStoring(p) ==
    /\ pc[p] = "q_check"
    /\ LET candidate == check_module_level_performance(
                            req[p].course, req[p].module_id,
                            progress_tracking, module_fail_threshold)
       IN /\ Finish(p, [req[p] EXCEPT !.candidate = candidate, !.result = "ok"])
          /\ user_courses' =
                 IF candidate
                 THEN Append(user_courses, NewModule(nextId, FALSE, <<>>))
                 ELSE user_courses
    /\ UNCHANGED <<progress_tracking, module_progress, nextId, started, tests,
                   current>>

\* lines 2378-2381: check_module_level_performance reads the progress of the
\* module's submodules, logs the candidate, and writes nothing; the response
\* is returned.
QuizCheckModulePerformance(p) ==
    /\ pc[p] = "q_check"
    /\ Finish(p, [req[p] EXCEPT
                     !.candidate = check_module_level_performance(
                                       req[p].course, req[p].module_id,
                                       progress_tracking, module_fail_threshold),
                     !.result = "ok"])
    /\ UNCHANGED <<store, nextId, started, tests, current>>

----------------------------------------------------------------------------
(* submit_module_exam *)

NewModuleProgress(user, module_id) ==
    [_id |-> 0, userId |-> user, moduleId |-> module_id, examAttempts |-> 0, examPassed |-> FALSE,
     remedialModuleGenerated |-> FALSE, attemptHistory |-> <<>>,
     bestExamScore |-> 0]

\* the filter {'userCourseId', 'moduleId', 'userId'} of lines 2894-2898 and 2909-2913
FindModuleProgress(user, module_id) ==
    FindOne(module_progress,
            {d \in Range(module_progress) : d.moduleId = module_id /\ d.userId = user})

\* lines 2739-2742: module_exams.find_one({'userCourseId', 'moduleId'})
FindExam(course_id, module_id) ==
    FindOne(module_exams,
            {d \in Range(module_exams) :
                 d.userCourseId = course_id /\ d.moduleId = module_id})

\* lines 2727-2886: no answers is refused; the exam and the course are read,
\* the module is looked up in the course read; an answer list of another
\* length than the question list is refused; the answers are graded.
SubmitModuleExam(p, user, course_id, module_id, n_answers, passed) ==
    /\ Receive(p)
    /\ LET r == [NoReq EXCEPT !.kind = "exam", !.user = user,
                              !.course_id = course_id,
                              !.module_id = module_id,
                              !.answers = n_answers]
           exam == FindExam(course_id, module_id)
           course == FindCourse(course_id)
           found == /\ exam # NoDoc
                    /\ course # NoDoc
                    /\ FindModule(course, module_id) # 0
       IN IF n_answers = 0
          THEN Finish(p, [r EXCEPT !.result = "invalid"])
          ELSE IF ~found
          THEN Finish(p, [r EXCEPT !.result = "not_found"])
          ELSE IF AnswerCountMismatch(n_answers, exam.questions)
          THEN Finish(p, [r EXCEPT !.result = "invalid"])
          ELSE Goto(p, "e_find", [r EXCEPT !.passed = passed, !.course = course])
    /\ UNCHANGED <<store, nextId, tests, current>>

\* lines 2894-2900
ExamFindProgress(p) ==
    /\ pc[p] = "e_find"
    /\ LET progress == FindModuleProgress(req[p].user, req[p].module_id)
       IN IF progress = NoDoc
          THEN Goto(p, "e_insert", req[p])
          ELSE Goto(p, "e_update", [req[p] EXCEPT !.progress = progress])
    /\ UNCHANGED <<store, nextId, started, tests, current>>

\* lines 2901-2908
ExamInsertProgress(p) ==
    /\ pc[p] = "e_insert"
    /\ module_progress' =
           InsertOne(module_progress,
                     NewModuleProgress(req[p].user, req[p].module_id))
    /\ Goto(p, "e_refetch", req[p])
    /\ UNCHANGED <<user_courses, progress_tracking, nextId, started, tests, current>>

\* lines 2909-2913
ExamRefetchProgress(p) ==
    /\ pc[p] = "e_refetch"
    /\ Goto(p, "e_update",
            [req[p] EXCEPT !.progress =
                               FindModuleProgress(req[p].user, req[p].module_id)])
    /\ UNCHANGED <<store, nextId, started, tests, current>>

\* line 3037: remedial_threshold = 2
remedial_threshold == 2

\* the threshold test without the remedialModuleGenerated flag
RemedialModuleDueNoFlag(attempt_count, progress) ==
    attempt_count >= remedial_threshold

\* line 3038: if attempt_count >= remedial_threshold and not
\* module_progress.get('remedialModuleGenerated', False)
RemedialModuleDue(attempt_count, progress) ==
    attempt_count >= remedial_threshold /\ ~progress.remedialModuleGenerated

\* lines 2916-2957 (passed) and 3018-3038 (failed): $set of the counters and
\* $push of the attempt record, computed from the document read before.
ExamUpdateProgress(p) ==
    /\ pc[p] = "e_update"
    /\ LET progress == req[p].progress
           attempt_count == progress.examAttempts + 1
           attempt_record == [attemptNumber |-> attempt_count,
                              passed |-> req[p].passed]
       IN /\ module_progress' =
                 [i \in 1..Len(module_progress) |->
                     IF module_progress[i]._id # progress._id
                     THEN module_progress[i]
                     ELSE [module_progress[i] EXCEPT
                              !.examAttempts = attempt_count,
                              !.bestExamScore =
                                  max(progress.bestExamScore,
                                      ScoreOf(req[p].total, req[p].answers)),
                              !.examPassed = IF req[p].passed THEN TRUE ELSE @,
                              !.attemptHistory = Append(@, attempt_record)]]
          /\ IF req[p].passed
             THEN Goto(p, "e_mark", [req[p] EXCEPT !.idx = 1, !.action = "continue"])
             ELSE IF RemedialModuleDue(attempt_count, progress)
                  THEN Goto(p, "g_read", [req[p] EXCEPT !.action = "remedial"])
                  ELSE Finish(p, [req[p] EXCEPT !.action = "retry", !.result = "ok"])
    /\ UNCHANGED <<user_courses, progress_tracking, nextId, started, tests, current>>

\* an insert_one in the place of the upsert
MarkCompletedViaExamInsert(coll, user, module_id, submodule_id) ==
    InsertOne(coll,
        [_id |-> 0, userId |-> user, userCourseId |-> FALSE,
         courseId |-> TRUE, moduleId |-> module_id,
         subModuleId |-> submodule_id, status |-> "absent",
         testAttempts |-> 0, submoduleFailCount |-> 0,
         quizPassed |-> FALSE, remedialSubmoduleGenerated |-> FALSE,
         contentCompleted |-> TRUE, completedViaExam |-> TRUE,
                 bestTestScore |-> 0, lastAttemptAnswers |-> 0])

\* lines 2967-2990: update_one(filter {'userId', 'courseId', 'moduleId',
\* 'subModuleId'}, $set contentCompleted, $setOnInsert the key, upsert=True)
MarkCompletedViaExam(coll, user, module_id, submodule_id) ==
    LET i == FirstIndex(coll, {d \in Range(coll) : /\ d.userId = user
                                                    /\ d.courseId
                                                    /\ d.moduleId = module_id
                                                    /\ d.subModuleId = submodule_id})
    IN IF i # 0
       THEN [coll EXCEPT ![i].contentCompleted = TRUE, ![i].completedViaExam = TRUE]
       ELSE InsertOne(coll,
                [_id |-> 0, userId |-> user, userCourseId |-> FALSE,
                 courseId |-> TRUE, moduleId |-> module_id,
                 subModuleId |-> submodule_id, status |-> "absent",
                 testAttempts |-> 0, submoduleFailCount |-> 0,
                 quizPassed |-> FALSE, remedialSubmoduleGenerated |-> FALSE,
                 contentCompleted |-> TRUE, completedViaExam |-> TRUE,
                 bestTestScore |-> 0, lastAttemptAnswers |-> 0])

\* lines 2959-2990: one upsert for each submodule of the module, as listed in
\* the course the handler read.
ExamMarkSubmodule(p) ==
    /\ pc[p] = "e_mark"
    /\ LET subs == req[p].course[FindModule(req[p].course, req[p].module_id)].subModules
       IN IF req[p].idx > Len(subs)
          THEN /\ Goto(p, "e_next", req[p])
               /\ UNCHANGED progress_tracking
          ELSE /\ progress_tracking' =
                      MarkCompletedViaExam(progress_tracking, req[p].user,
                                           req[p].module_id,
                                           subs[req[p].idx].subModuleId)
               /\ Goto(p, "e_mark", [req[p] EXCEPT !.idx = @ + 1])
    /\ UNCHANGED <<user_courses, module_progress, nextId, started, tests, current>>

\* a module list in which no module ever follows module_id
NextModuleIdNone(course, module_id) == NoId

\* lines 2995-2998: the module after module_id in the course the handler
\* read, NoId when module_id is the last one
NextModuleId(course, module_id) ==
    LET current_index == FindModule(course, module_id)
    IN IF current_index >= 1 /\ current_index < Len(course)
       THEN course[current_index + 1].moduleId
       ELSE NoId

\* background_tasks.generate_module_content_background(app, course_id,
\* module_id, user_id, module_index): the first submodule of the newly
\* unlocked module is unlocked in the stored course.
generate_module_content_background(course, module_id) ==
    LET i == FindModule(course, module_id)
    IN IF i = 0 \/ Len(course[i].subModules) = 0 THEN course
       ELSE UnlockSubmodule(course, course[i].subModules[1].subModuleId)

\* lines 2992-3017
ExamUnlockNextModule(p) ==
    /\ pc[p] = "e_next"
    /\ LET next_module == NextModuleId(req[p].course, req[p].module_id)
       IN user_courses' = IF next_module = NoId THEN user_courses
                          ELSE generate_module_content_background(user_courses,
                                                                  next_module)
    /\ Finish(p, [req[p] EXCEPT !.result = "ok"])
    /\ UNCHANGED <<progress_tracking, module_progress, nextId, started, tests, current>>

----------------------------------------------------------------------------
(* submit_module_exam: grading *)

\* the most hints a client reports for one question
MaxHints == 11

\* line 2740: QUIZ_PASS_THRESHOLD, 70 by default
pass_threshold == 70

\* the options of a question; "x" is never part of a correct answer
Options == {"a", "b", "c", "d", "x"}

\* lines 2798-2804: correct_set of a multi-select question, by the variant
\* of the question: no correct answer stored, one, two or four options
CorrectSet(variant) ==
    CASE variant = 0 -> {}
      [] variant = 1 -> {"a", "b"}
      [] variant = 2 -> {"a", "b", "c", "d"}
      [] OTHER -> {"a"}

\* question.get('correctAnswer'), or correctAnswers for multi-select
CanonicalAnswer(question) ==
    IF question.type = "multi-select" THEN CorrectSet(question.variant) ELSE {"a"}

\* what a client may send for a question: one option, the correct one or
\* not; for a multi-select question the set user_selections parsed from the
\* comma-separated answer (line 2797), empty for an empty answer
AnswersTo(question) ==
    IF question.type = "multi-select" THEN SUBSET Options ELSE {{"a"}, {"x"}}

\* every way of answering each question of a list
RECURSIVE AnswerLists(_)
AnswerLists(questions) ==
    IF questions = <<>> THEN {<<>>}
    ELSE {<<answer>> \o rest : answer \in AnswersTo(Head(questions)),
                               rest \in AnswerLists(Tail(questions))}

\* what the grading call of lines 2845-2846 gives: it raises, or a score
Grades ==
    {[failed |-> TRUE, score |-> 0]}
        \cup {[failed |-> FALSE, score |-> s] : s \in {0, 70, 100}}

\* line 2773: hint_penalty_multiplier = 1 - (hint_count * hint_penalty),
\* in tenths
HintPenaltyMultiplier(hint_count) == 10 - hint_count

\* partial credit that takes nothing off for wrong picks
MultiSelectBaseScoreNoWrongPicks(user_selections, correct_set) ==
    IF user_selections = correct_set THEN 100
    ELSE IF correct_set = {} THEN 0
    ELSE (Cardinality(user_selections \cap correct_set) * 100)
            \div Cardinality(correct_set)

\* lines 2806-2817: base_score of a multi-select question; the correct
\* sets modelled have 0, 1, 2 or 4 options, which keeps the quotient whole
MultiSelectBaseScore(user_selections, correct_set) ==
    LET correct_picks == Cardinality(user_selections \cap correct_set)
        wrong_picks == Cardinality(user_selections \ correct_set)
        max_possible == Cardinality(correct_set)
    IN IF user_selections = correct_set THEN 100
       ELSE IF max_possible > 0 /\ correct_picks > wrong_picks
       THEN ((correct_picks - wrong_picks) * 100) \div max_possible
       ELSE 0

\* a grader in which one failed grading call zeroes every question
ScoreForQFailureZeroesAll(question, answer, hint_count, grade) ==
    IF grade.failed THEN 0
    ELSE IF question.type = "multiple-choice"
    THEN IF answer = CanonicalAnswer(question)
         THEN 100 * HintPenaltyMultiplier(hint_count) ELSE 0
    ELSE IF question.type = "multi-select"
    THEN MultiSelectBaseScore(answer, CanonicalAnswer(question))
            * HintPenaltyMultiplier(hint_count)
    ELSE grade.score * HintPenaltyMultiplier(hint_count)

\* lines 2775-2883: score_for_q of one question, in tenths of a point
ScoreForQ(question, answer, hint_count, grade) ==
    IF question.type = "multiple-choice"
    THEN IF answer = CanonicalAnswer(question)
         THEN 100 * HintPenaltyMultiplier(hint_count) ELSE 0
    ELSE IF question.type = "multi-select"
    THEN MultiSelectBaseScore(answer, CanonicalAnswer(question))
            * HintPenaltyMultiplier(hint_count)
    ELSE IF grade.failed THEN 0
         ELSE grade.score * HintPenaltyMultiplier(hint_count)

\* lines 2786, 2827, 2856, 2875: isCorrect of one question
IsCorrect(question, answer, hint_count, grade) ==
    IF question.type \in {"multiple-choice", "multi-select"}
    THEN answer = CanonicalAnswer(question)
    ELSE ~grade.failed /\ ScoreForQ(question, answer, hint_count, grade) >= 700

\* lines 2885-2886: score = total_score / len(questions); passed = score >=
\* pass_threshold
ExamPassed(scores) ==
    SumTo(scores, Len(scores)) >= pass_threshold * 10 * Len(scores)

\* lines 2727-2886 for a submission the lookups accept: each answer is
\* graded against the stored exam, with the hints the client reports and
\* what the grading calls give; the handler goes on with the verdict.
GradeModuleExam(p, module_id, answers, hint_count, grade) ==
    /\ Receive(p)
    /\ LET exam == FindExam(CourseId, module_id)
           questions == exam.questions
           scores == [i \in 1..Len(questions) |->
                         ScoreForQ(questions[i], answers[i], hint_count, grade)]
       IN /\ exam # NoDoc
          /\ FindModule(user_courses, module_id) # 0
          /\ Len(answers) = Len(questions)
          /\ Goto(p, "e_find",
                  [NoReq EXCEPT !.kind = "exam", !.user = "user",
                                !.course_id = CourseId,
                                !.module_id = module_id,
                                !.answers = Len(answers),
                                !.given = answers,
                                !.hint_count = hint_count,
                                !.grade = grade,
                                !.scores = scores,
                                !.correct =
                                    [i \in 1..Len(questions) |->
                                        IsCorrect(questions[i], answers[i],
                                                  hint_count, grade)],
                                !.total = SumTo(scores, Len(scores)),
                                !.passed = ExamPassed(scores),
                                !.course = user_courses])
    /\ UNCHANGED <<store, nextId, tests, current>>

----------------------------------------------------------------------------
(* submit_submodule_test: grading *)

\* a quiz verdict that needs more than the threshold
QuizPassedAbove(score_n, n) == score_n > pass_threshold * 10 * n

\* line 2216: passed = score >= pass_threshold, for the score times n
QuizPassed(score_n, n) == score_n >= pass_threshold * 10 * n

\* line 2191: is_correct = answer == question.get('correctAnswer'), whatever
\* the type of the question
QuizIsCorrect(question, answer) == answer = CanonicalAnswer(question)

\* lines 2190-2215: score times len(questions), in tenths: base_score minus
\* penalty_deduction, not below 0; hint_penalty_total adds the hints of the
\* correctly answered questions
QuizScore(questions, answers, hint_count) ==
    LET correct == {i \in 1..Len(questions) :
                       QuizIsCorrect(questions[i], answers[i])}
        correct_count == Cardinality(correct)
        hint_penalty_total == hint_count * Cardinality(correct)
        difference == 1000 * correct_count - 100 * hint_penalty_total
    IN IF difference > 0 THEN difference ELSE 0

\* lines 2139-2216 for a submission the lookups accept: the answers are
\* graded against the stored test, with the hints the client reports; the
\* handler goes on with the verdict.
GradeSubmoduleTest(p, module_id, submodule_id, answers, hint_count) ==
    /\ Receive(p)
    /\ LET test == FindTest(CourseId, submodule_id)
           questions == test.questions
           mi == FindModule(user_courses, module_id)
           score_n == QuizScore(questions, answers, hint_count)
       IN /\ test # NoDoc
          /\ mi # 0
          /\ FindSubmodule(user_courses[mi].subModules, submodule_id) # 0
          /\ Len(answers) = Len(questions)
          /\ Goto(p, "q_find",
                  [NoReq EXCEPT !.kind = "quiz", !.user = "user",
                                !.course_id = CourseId,
                                !.module_id = module_id,
                                !.submodule_id = submodule_id,
                                !.answers = Len(answers),
                                !.given = answers,
                                !.hint_count = hint_count,
                                !.correct =
                                    [i \in 1..Len(questions) |->
                                        QuizIsCorrect(questions[i], answers[i])],
                                !.total = score_n,
                                !.passed = QuizPassed(score_n, Len(questions)),
                                !.course = user_courses])
    /\ UNCHANGED <<store, nextId, tests, current>>

----------------------------------------------------------------------------
(* generate_remedial_module *)

\* lines 2637-2688: the remedial module document; its submodules carry no
\* isRemedial key and are unlocked.
RemedialModule(id, parent_id, n) ==
    [moduleId |-> id, isLocked |-> FALSE, isRemedial |-> TRUE,
     parentModuleId |-> parent_id,
     subModules |-> [j \in 1..n |-> NewSubmodule(id + j, FALSE)]]

\* lines 2579-2688: the course is read again, the attempt history of the
\* module_progress document passed in is checked, the Content Generator is
\* called; None is returned when a lookup fails or the call raises.
RemedialModuleRead(p) ==
    /\ pc[p] = "g_read"
    /\ LET course == user_courses
       IN IF \/ FindModule(course, req[p].module_id) = 0
             \/ req[p].progress.attemptHistory = <<>>
          THEN /\ Finish(p, [req[p] EXCEPT !.course = course, !.result = "ok"])
               /\ UNCHANGED nextId
          ELSE \/ /\ Finish(p, [req[p] EXCEPT !.course = course,
                                              !.genFailed = TRUE, !.result = "ok"])
                  /\ UNCHANGED nextId
               \/ \E n \in 1..MaxRemedialSubs :
                     /\ Goto(p, "g_write",
                             [req[p] EXCEPT !.course = course,
                                 !.node = RemedialModule(nextId, req[p].module_id, n)])
                     /\ nextId' = nextId + n + 1
    /\ UNCHANGED <<store, started, tests, current>>

\* lines 2690-2701: modules_list.insert(target_index + 1, remedial_module) on
\* the list read before, then $set of the whole modules array.
RemedialModuleWrite(p) ==
    /\ pc[p] = "g_write"
    /\ LET modules_list == req[p].course
           target_index == FindModule(modules_list, req[p].module_id) - 1
       IN user_courses' = IF target_index >= 0
                          THEN InsertAt(modules_list, target_index + 1, req[p].node)
                          ELSE user_courses
    /\ Goto(p, "g_flag", [req[p] EXCEPT !.remedial = req[p].node.moduleId])
    /\ UNCHANGED <<progress_tracking, module_progress, nextId, started, tests, current>>

\* lines 2704-2711
RemedialModuleSetFlag(p) ==
    /\ pc[p] = "g_flag"
    /\ module_progress' =
           [i \in 1..Len(module_progress) |->
               IF module_progress[i]._id = req[p].progress._id
               THEN [module_progress[i] EXCEPT !.remedialModuleGenerated = TRUE]
               ELSE module_progress[i]]
    /\ Finish(p, [req[p] EXCEPT !.result = "ok"])
    /\ UNCHANGED <<user_courses, progress_tracking, nextId, started, tests, current>>

----------------------------------------------------------------------------
(* complete_submodule *)

\* lines 3761-3774: update_one(filter {'userCourseId', 'subModuleId'}, $set
\* status, contentCompleted, upsert=True)
MarkContentCompleted(coll, submodule_id) ==
    LET i == FirstIndex(coll, {d \in Range(coll) : d.userCourseId
                                                    /\ d.subModuleId = submodule_id})
    IN IF i # 0
       THEN [coll EXCEPT ![i].status = "in_progress", ![i].contentCompleted = TRUE]
       ELSE InsertOne(coll,
                [_id |-> 0, userId |-> "absent", userCourseId |-> TRUE,
                 courseId |-> FALSE, moduleId |-> NoId,
                 subModuleId |-> submodule_id, status |-> "in_progress",
                 testAttempts |-> 0, submoduleFailCount |-> 0,
                 quizPassed |-> FALSE, remedialSubmoduleGenerated |-> FALSE,
                 contentCompleted |-> TRUE, completedViaExam |-> FALSE,
                 bestTestScore |-> 0, lastAttemptAnswers |-> 0])

\* lines 3748-3774
CompleteSubmodule(p, user, submodule_id) ==
    /\ Receive(p)
    /\ progress_tracking' = MarkContentCompleted(progress_tracking, submodule_id)
    /\ Goto(p, "c_read", [NoReq EXCEPT !.kind = "complete", !.user = user,
                                       !.submodule_id = submodule_id])
    /\ UNCHANGED <<user_courses, module_progress, nextId, tests, current>>

\* line 3785
CompleteReadCourse(p) ==
    /\ pc[p] = "c_read"
    /\ Goto(p, "c_unlock", [req[p] EXCEPT !.course = user_courses])
    /\ UNCHANGED <<store, nextId, started, tests, current>>

\* lines 3787-3798: the submodule met right after submodule_id when walking
\* every module's submodules in order
FollowingSubmoduleId(course, submodule_id) ==
    LET subs == AllSubs(course)
        i == FindSubmodule(subs, submodule_id)
    IN IF i >= 1 /\ i < Len(subs) THEN subs[i + 1].subModuleId ELSE NoId

\* lines 3800-3816
CompleteUnlockNext(p) ==
    /\ pc[p] = "c_unlock"
    /\ LET next_submodule_id == FollowingSubmoduleId(req[p].course,
                                                     req[p].submodule_id)
       IN /\ user_courses' = IF next_submodule_id = NoId THEN user_courses
                             ELSE UnlockSubmodule(user_courses, next_submodule_id)
          /\ Finish(p, [req[p] EXCEPT !.nextSub = next_submodule_id,
                                      !.result = "ok"])
    /\ UNCHANGED <<progress_tracking, module_progress, nextId, started, tests, current>>

----------------------------------------------------------------------------
(* get_submodule_test, get_module_exam *)

\* the texts the Content Generator may give a generated question
QuestionVariants == {1, 2}

\* lines 1131-1207: the fixed five questions of the quiz returned when the
\* Content Generator call raises or gives no question
FallbackQuizQuestions == [i \in 1..5 |-> NewQuestion("multiple_choice", 0)]

\* lines 1267-1332: the fixed four questions of the exam returned when the
\* Content Generator call raises or gives no question
FallbackQuestions == [i \in 1..4 |-> NewQuestion("multiple_choice", 0)]

\* what a Content Generator call gives: no question (the call raised, or its
\* answer held none), or one generated question
GeneratorResponses ==
    {<<>>} \cup {<<NewQuestion("multiple-choice", v)>> : v \in QuestionVariants}

\* lines 1084-1207, the question list of the quiz returned
generate_submodule_test(response) ==
    IF response = <<>> THEN FallbackQuizQuestions ELSE response

\* lines 1210-1333, the question list of the exam returned
generate_module_exam(response) ==
    IF response = <<>> THEN FallbackQuestions ELSE response

\* update_one(filter, {'$set': doc}, upsert=True): the first document the
\* filter selects gets the fields of doc, a new one is inserted when none is
Upsert(coll, matching, doc) ==
    LET i == FirstIndex(coll, matching)
    IN IF i # 0 THEN [coll EXCEPT ![i] = [doc EXCEPT !._id = coll[i]._id]]
       ELSE InsertOne(coll, doc)

\* a response that shows the answers whether or not there was an attempt
TestDataWithAnswers(questions, has_previous_attempt) ==
    [i \in 1..Len(questions) |->
        [type |-> questions[i].type,
         correctAnswer |-> CanonicalAnswer(questions[i])]]

\* lines 2014-2038 and 2117-2128: the questions of the response; the keys
\* correctAnswer and explanation are there only after a previous attempt
TestData(questions, has_previous_attempt) ==
    [i \in 1..Len(questions) |->
        IF has_previous_attempt
        THEN [type |-> questions[i].type,
              correctAnswer |-> CanonicalAnswer(questions[i])]
        ELSE [type |-> questions[i].type]]

\* lines 2006-2011: has_previous_attempt = progress and
\* progress.get('lastAttemptAnswers'), for the first document of the filter
\* {'userCourseId', 'subModuleId'}
HasPreviousAttempt(submodule_id) ==
    LET progress == FindOne(progress_tracking,
                        {d \in Range(progress_tracking) :
                            d.userCourseId /\ d.subModuleId = submodule_id})
    IN progress # NoDoc /\ progress.lastAttemptAnswers # 0

\* lines 1963-2060: the course is read with the caller's userId, the module
\* and the submodule are looked up, a stored test with questions is
\* returned; lines 2062-2068: without lesson content no test is generated.
GetSubmoduleTest(p, user, module_id, submodule_id, has_content) ==
    /\ Receive(p)
    /\ LET r == [NoReq EXCEPT !.kind = "get_test", !.user = user,
                              !.course_id = CourseId,
                              !.module_id = module_id,
                              !.submodule_id = submodule_id]
           mi == FindModule(user_courses, module_id)
           found == /\ user = "user"
                    /\ mi # 0
                    /\ FindSubmodule(user_courses[mi].subModules, submodule_id) # 0
           existing_test == FindTest(CourseId, submodule_id)
       IN IF ~found
          THEN Finish(p, [r EXCEPT !.result = "not_found"])
          ELSE IF existing_test # NoDoc /\ existing_test.questions # <<>>
          THEN Finish(p, [r EXCEPT !.questions = existing_test.questions,
                                   !.test_data =
                                       TestData(existing_test.questions,
                                                HasPreviousAttempt(submodule_id)),
                                   !.result = "ok"])
          ELSE IF ~has_content
          THEN Finish(p, [r EXCEPT !.result = "invalid"])
          ELSE Goto(p, "t_generate", r)
    /\ UNCHANGED <<store, nextId, tests, current>>

\* lines 2079-2090: the Content Generator is called
TestGenerate(p) ==
    /\ pc[p] = "t_generate"
    /\ \E response \in GeneratorResponses :
          Goto(p, "t_store",
               [req[p] EXCEPT !.questions = generate_submodule_test(response)])
    /\ UNCHANGED <<store, nextId, started, tests, current>>

\* lines 2093-2130: the test is upserted and returned
TestStore(p) ==
    /\ pc[p] = "t_store"
    /\ submodule_tests' =
           Upsert(submodule_tests,
                  {d \in Range(submodule_tests) :
                       /\ d.userCourseId = CourseId
                       /\ d.subModuleId = req[p].submodule_id},
                  NewTest(req[p].submodule_id, req[p].questions))
    /\ Finish(p, [req[p] EXCEPT !.test_data = TestData(req[p].questions, FALSE),
                                !.result = "ok"])
    /\ UNCHANGED <<store, module_exams, nextId, started, current>>

\* lines 2387-2487: the course is read with the caller's userId, the module
\* is looked up, a stored exam with questions is returned; lines 2491-2506:
\* without the content of any submodule no exam is generated.
GetModuleExam(p, user, module_id, has_content) ==
    /\ Receive(p)
    /\ LET r == [NoReq EXCEPT !.kind = "get_exam", !.user = user,
                              !.course_id = CourseId,
                              !.module_id = module_id]
           existing_exam == FindExam(CourseId, module_id)
       IN IF user # "user" \/ FindModule(user_courses, module_id) = 0
          THEN Finish(p, [r EXCEPT !.result = "not_found"])
          ELSE IF existing_exam # NoDoc /\ existing_exam.questions # <<>>
          THEN Finish(p, [r EXCEPT !.questions = existing_exam.questions,
                                   !.result = "ok"])
          ELSE IF ~has_content
          THEN Finish(p, [r EXCEPT !.result = "invalid"])
          ELSE Goto(p, "x_generate", r)
    /\ UNCHANGED <<store, nextId, tests, current>>

\* lines 2518-2529: the Content Generator is called
ExamGenerate(p) ==
    /\ pc[p] = "x_generate"
    /\ \E response \in GeneratorResponses :
          Goto(p, "x_store",
               [req[p] EXCEPT !.questions = generate_module_exam(response)])
    /\ UNCHANGED <<store, nextId, started, tests, current>>

\* lines 2532-2570: the exam is upserted and returned
ExamStore(p) ==
    /\ pc[p] = "x_store"
    /\ module_exams' =
           Upsert(module_exams,
                  {d \in Range(module_exams) :
                       /\ d.userCourseId = CourseId
                       /\ d.moduleId = req[p].module_id},
                  NewExam(req[p].module_id, req[p].questions))
    /\ Finish(p, [req[p] EXCEPT !.result = "ok"])
    /\ UNCHANGED <<store, submodule_tests, nextId, started, current>>

----------------------------------------------------------------------------
(* modify_curriculum *)

\* lines 589-673: the course is read, the Content Generator is asked for the
\* modified curriculum; a failed call, an invalid request or an empty module
\* list ends the request with nothing written. Lines 675-716: new_modules
\* is built.
ModifyCurriculum(p, shape, accepted) ==
    /\ Receive(p)
    /\ IF ~accepted
       THEN /\ Finish(p, [NoReq EXCEPT !.kind = "modify", !.result = "rejected"])
            /\ UNCHANGED nextId
       ELSE /\ Goto(p, "m_write",
                    [NoReq EXCEPT !.kind = "modify", !.course = user_courses,
                                  !.modules = modify_curriculum(shape, nextId)])
            /\ nextId' = nextId + Len(shape) + SumTo(shape, Len(shape))
    /\ UNCHANGED <<store, tests, current>>

\* lines 718-730: update_one $set {'modules': new_modules,
\* 'currentModuleId', 'currentSubModuleId'}
ModifyCurriculumWrite(p) ==
    /\ pc[p] = "m_write"
    /\ user_courses' = req[p].modules
    /\ current' = CurrentOf(req[p].modules)
    /\ Finish(p, [req[p] EXCEPT !.result = "ok"])
    /\ UNCHANGED <<progress_tracking, module_progress, nextId, started, tests>>

----------------------------------------------------------------------------
(* Specifications *)

Init ==
    /\ \E shape \in CourseShapes :
          /\ user_courses = generate_curriculum(shape)
          /\ nextId = Len(shape) + SumTo(shape, Len(shape)) + 1
    /\ progress_tracking = <<>>
    /\ module_progress = <<>>
    /\ submodule_tests = TestsOf(user_courses, <<NewQuestion("multiple-choice", 1)>>)
    /\ module_exams = ExamsOf(user_courses, <<NewQuestion("multiple-choice", 1)>>)
    /\ pc = [p \in Procs |-> "idle"]
    /\ req = [p \in Procs |-> NoReq]
    /\ started = 0
    /\ current = CurrentOf(user_courses)

\* the number of answers the client sends for the test it was shown
AnswerCount(test) == IF test = NoDoc THEN 1 ELSE Len(test.questions)

\* a request of the course's owner arrives: any module and submodule id of
\* the stored course, one answer for each question
Submit(p) ==
    \/ \E m \in ModuleIds(user_courses), s \in SubIds(user_courses),
          passed \in BOOLEAN :
          SubmitSubmoduleTest(p, "user", CourseId, m, s,
                              AnswerCount(FindTest(CourseId, s)), passed)
    \/ \E m \in ModuleIds(user_courses), passed \in BOOLEAN :
          SubmitModuleExam(p, "user", CourseId, m,
                           AnswerCount(FindExam(CourseId, m)), passed)
    \/ \E s \in SubIds(user_courses) : CompleteSubmodule(p, "user", s)

\* the next store operation of the handler worker p runs
Step(p) ==
    \/ QuizFindProgress(p)
    \/ QuizInsertProgress(p)
    \/ QuizRefetchProgress(p)
    \/ QuizUpdateProgress(p)
    \/ QuizUnlockNext(p)
    \/ QuizInsertRemedial(p)
    \/ QuizSetRemedialFlag(p)
    \/ QuizCheckModulePerformance(p)
    \/ ExamFindProgress(p)
    \/ ExamInsertProgress(p)
    \/ ExamRefetchProgress(p)
    \/ ExamUpdateProgress(p)
    \/ ExamMarkSubmodule(p)
    \/ ExamUnlockNextModule(p)
    \/ RemedialModuleRead(p)
    \/ RemedialModuleWrite(p)
    \/ RemedialModuleSetFlag(p)
    \/ CompleteReadCourse(p)
    \/ CompleteUnlockNext(p)

\* the request is cut off between two store operations (the worker dies, a
\* store call raises): nothing more of it runs
Abort(p) ==
    /\ ~Idle(p)
    /\ pc' = [pc EXCEPT ![p] = "aborted"]
    /\ UNCHANGED <<store, req, nextId, started, tests, current>>

\* requests handled one after another
Next == \E p \in Procs : (Serial(p) /\ Submit(p)) \/ Step(p)

Spec == Init /\ [][Next]_vars

\* a request goes to worker 1 when it is free, to another worker otherwise
Dispatch(p) == Idle(p) /\ (p = 1 \/ ~Idle(1))

\* requests handled by two workers at once
NextConc == \E p \in Procs : (Dispatch(p) /\ Submit(p)) \/ Step(p)

SpecConc == Init /\ [][NextConc]_vars

\* requests handled one after another, any of them may be cut off
NextAbort == \E p \in Procs : (Serial(p) /\ Submit(p)) \/ Step(p) \/ Abort(p)

SpecAbort == Init /\ [][NextAbort]_vars

\* the stored tests and exams have one or two questions
InitInput ==
    /\ \E shape \in CourseShapes :
          /\ user_courses = generate_curriculum(shape)
          /\ nextId = Len(shape) + SumTo(shape, Len(shape)) + 1
    /\ progress_tracking = <<>>
    /\ module_progress = <<>>
    /\ \E questions \in {<<NewQuestion("multiple-choice", 1)>>,
                          <<NewQuestion("multiple-choice", 1),
                            NewQuestion("short-answer", 1)>>} :
          /\ submodule_tests = TestsOf(user_courses, questions)
          /\ module_exams = ExamsOf(user_courses, questions)
    /\ pc = [p \in Procs |-> "idle"]
    /\ req = [p \in Procs |-> NoReq]
    /\ started = 0
    /\ current = CurrentOf(user_courses)

\* a request of the course's owner arrives: a submission with any course,
\* module and submodule id, known or not, and any number of answers, or a
\* content completion
SubmitAny(p) ==
    \/ \E c \in {CourseId, UnknownCourseId},
          m \in ModuleIds(user_courses) \cup {UnknownNodeId},
          s \in SubIds(user_courses) \cup {UnknownNodeId},
          n \in 0..MaxAnswers, passed \in BOOLEAN :
          SubmitSubmoduleTest(p, "user", c, m, s, n, passed)
    \/ \E c \in {CourseId, UnknownCourseId},
          m \in ModuleIds(user_courses) \cup {UnknownNodeId},
          n \in 0..MaxAnswers, passed \in BOOLEAN :
          SubmitModuleExam(p, "user", c, m, n, passed)
    \/ \E s \in SubIds(user_courses) : CompleteSubmodule(p, "user", s)

\* requests with any input, handled one after another
NextInput ==
    \E p \in Procs :
        \/ Serial(p) /\ started < MaxInputRequests /\ SubmitAny(p)
        \/ Step(p)

SpecInput == InitInput /\ [][NextInput]_vars

\* a request of any signed-in user arrives, carrying ids of the stored
\* course: the handlers look the course up by its _id alone (lines 2167,
\* 2745, 3785)
SubmitByAnyUser(p) ==
    \E user \in Users :
        \/ \E m \in ModuleIds(user_courses), s \in SubIds(user_courses),
              passed \in BOOLEAN :
              SubmitSubmoduleTest(p, user, CourseId, m, s,
                                  AnswerCount(FindTest(CourseId, s)), passed)
        \/ \E m \in ModuleIds(user_courses), passed \in BOOLEAN :
              SubmitModuleExam(p, user, CourseId, m,
                               AnswerCount(FindExam(CourseId, m)), passed)
        \/ \E s \in SubIds(user_courses) : CompleteSubmodule(p, user, s)

\* requests of two users, handled one after another
NextUsers == \E p \in Procs : (Serial(p) /\ SubmitByAnyUser(p)) \/ Step(p)

SpecUsers == Init /\ [][NextUsers]_vars

\* a course for which no test or exam was requested yet
InitTests ==
    /\ \E shape \in CourseShapes :
          /\ user_courses = generate_curriculum(shape)
          /\ nextId = Len(shape) + SumTo(shape, Len(shape)) + 1
    /\ progress_tracking = <<>>
    /\ module_progress = <<>>
    /\ submodule_tests = <<>>
    /\ module_exams = <<>>
    /\ pc = [p \in Procs |-> "idle"]
    /\ req = [p \in Procs |-> NoReq]
    /\ started = 0
    /\ current = CurrentOf(user_courses)

\* get-test and get-exam requests of either user handled by two workers at
\* once
NextTests ==
    \E p \in Procs :
        \/ /\ Dispatch(p)
           /\ \E user \in Users, m \in ModuleIds(user_courses),
                 s \in SubIds(user_courses), has_content \in BOOLEAN :
                 GetSubmoduleTest(p, user, m, s, has_content)
        \/ TestGenerate(p)
        \/ TestStore(p)
        \/ /\ Dispatch(p)
           /\ \E user \in Users, m \in ModuleIds(user_courses),
                 has_content \in BOOLEAN :
                 GetModuleExam(p, user, m, has_content)
        \/ ExamGenerate(p)
        \/ ExamStore(p)

SpecTests == InitTests /\ [][NextTests]_vars

\* the exams a module may have stored: the fallback exam, or a generated
\* one: one multiple-choice question, one multi-select question with any of
\* the correct sets, or a short-answer question after a multiple-choice one
GradedExams ==
    {FallbackQuestions, <<NewQuestion("multiple-choice", 1)>>,
     <<NewQuestion("multiple-choice", 1), NewQuestion("short-answer", 1)>>}
        \cup {<<NewQuestion("multi-select", variant)>> : variant \in 0..3}

\* the module_progress document of a module after one failed exam (lines
\* 2901-2908, 3018-3038)
FailedOnce(module_id) ==
    [NewModuleProgress("user", module_id) EXCEPT
        !._id = 1, !.examAttempts = 1,
        !.attemptHistory = <<[attemptNumber |-> 1, passed |-> FALSE]>>]

\* the quizzes a submodule may have stored: the fallback quiz, or a
\* generated one of two questions
GradedQuizzes ==
    {FallbackQuizQuestions,
     <<NewQuestion("multiple-choice", 1), NewQuestion("multiple-choice", 2)>>}

\* the quiz and the exam stored together: any exam with the generated quiz,
\* or any quiz with the exam of one multiple-choice question
GradedTests ==
    {[quiz |-> quiz, exam |-> exam] :
        quiz \in GradedQuizzes, exam \in {<<NewQuestion("multiple-choice", 1)>>}}
        \cup {[quiz |-> quiz, exam |-> exam] :
                 quiz \in {<<NewQuestion("multiple-choice", 1),
                             NewQuestion("multiple-choice", 2)>>},
                 exam \in GradedExams}

\* the grades that matter for a question list: those of the grading calls
\* made for its questions, none when no question is graded by a call
GradesFor(questions) ==
    IF \A i \in 1..Len(questions) :
          questions[i].type \in {"multiple-choice", "multi-select"}
    THEN {NoGrade} ELSE Grades

\* an exam is stored for every module and a quiz for every submodule; the
\* first module's exam was not attempted yet, or was failed once; the
\* session's last request is to come (the earlier ones were refused, or
\* were that failed exam)
InitGrade ==
    /\ \E shape \in CourseShapes :
          /\ user_courses = generate_curriculum(shape)
          /\ nextId = Len(shape) + SumTo(shape, Len(shape)) + 1
          /\ module_progress \in {<<>>, <<FailedOnce(user_courses[1].moduleId)>>}
    /\ progress_tracking = <<>>
    /\ \E stored \in GradedTests :
          /\ submodule_tests = TestsOf(user_courses, stored.quiz)
          /\ module_exams = ExamsOf(user_courses, stored.exam)
    /\ pc = [p \in Procs |-> "idle"]
    /\ req = [p \in Procs |-> NoReq]
    /\ started = MaxRequests - 1
    /\ current = CurrentOf(user_courses)

\* test.get('questions', []) of the test or exam found, if any
QuestionsOf(test) == IF test = NoDoc THEN <<>> ELSE test.questions

\* exam and quiz submissions graded and handled one after another
NextGrade ==
    \E p \in Procs :
        \/ /\ Serial(p)
           /\ \E m \in ModuleIds(user_courses) :
               \E answers \in AnswerLists(QuestionsOf(FindExam(CourseId, m))),
                  hint_count \in 0..MaxHints,
                  grade \in GradesFor(QuestionsOf(FindExam(CourseId, m))) :
                  GradeModuleExam(p, m, answers, hint_count, grade)
        \/ /\ Serial(p)
           /\ \E m \in ModuleIds(user_courses), s \in SubIds(user_courses) :
               \E answers \in AnswerLists(QuestionsOf(FindTest(CourseId, s))),
                  hint_count \in 0..MaxHints :
                  GradeSubmoduleTest(p, m, s, answers, hint_count)
        \/ QuizFindProgress(p)
        \/ QuizInsertProgress(p)
        \/ QuizRefetchProgress(p)
        \/ QuizUpdateProgress(p)
        \/ QuizUnlockNext(p)
        \/ QuizInsertRemedial(p)
        \/ QuizSetRemedialFlag(p)
        \/ QuizCheckModulePerformance(p)
        \/ ExamFindProgress(p)
        \/ ExamInsertProgress(p)
        \/ ExamRefetchProgress(p)
        \/ ExamUpdateProgress(p)
        \/ ExamMarkSubmodule(p)
        \/ ExamUnlockNextModule(p)
        \/ RemedialModuleRead(p)
        \/ RemedialModuleWrite(p)
        \/ RemedialModuleSetFlag(p)

SpecGrade == InitGrade /\ [][NextGrade]_vars

\* a course created from any curriculum
InitCurriculum ==
    /\ \E shape \in CurriculumShapes :
          /\ user_courses = generate_curriculum(shape)
          /\ nextId = Len(shape) + SumTo(shape, Len(shape)) + 1
    /\ progress_tracking = <<>>
    /\ module_progress = <<>>
    /\ submodule_tests = <<>>
    /\ module_exams = <<>>
    /\ pc = [p \in Procs |-> "idle"]
    /\ req = [p \in Procs |-> NoReq]
    /\ started = 0
    /\ current = CurrentOf(user_courses)

\* course creation, then curriculum rebuilds and content completions
\* handled one after another
NextCurriculum ==
    \E p \in Procs :
        \/ Serial(p) /\ \E shape \in CurriculumShapes, accepted \in BOOLEAN :
                            ModifyCurriculum(p, shape, accepted)
        \/ ModifyCurriculumWrite(p)
        \/ Serial(p) /\ \E s \in SubIds(user_courses) :
                            CompleteSubmodule(p, "user", s)
        \/ CompleteReadCourse(p)
        \/ CompleteUnlockNext(p)

SpecCurriculum == InitCurriculum /\ [][NextCurriculum]_vars

\* The courses find_and_unlock_next_submodule walks: as created from a
\* curriculum whose modules all have submodules, or with a module that came
\* without any (line 435 stores whatever list the Content Generator gave).
WalkShapes == {<<2, 1>>, <<1, 0, 1>>}

InitWalk ==
    /\ \E shape \in WalkShapes :
          /\ user_courses = generate_curriculum(shape)
          /\ nextId = Len(shape) + SumTo(shape, Len(shape)) + 1
    /\ progress_tracking = <<>>
    /\ module_progress = <<>>
    /\ submodule_tests = TestsOf(user_courses, <<NewQuestion("multiple-choice", 1)>>)
    /\ module_exams = ExamsOf(user_courses, <<NewQuestion("multiple-choice", 1)>>)
    /\ pc = [p \in Procs |-> "idle"]
    /\ req = [p \in Procs |-> NoReq]
    /\ started = 0
    /\ current = CurrentOf(user_courses)

\* requests handled one after another on any of these courses
SpecWalk == InitWalk /\ [][Next]_vars

\* exam submissions and curriculum rebuilds handled by two workers at once
NextPointers ==
    \E p \in Procs :
        \/ Dispatch(p) /\ \E m \in ModuleIds(user_courses), passed \in BOOLEAN :
                              SubmitModuleExam(p, "user", CourseId, m,
                                               AnswerCount(FindExam(CourseId, m)),
                                               passed)
        \/ Dispatch(p) /\ \E shape \in CurriculumShapes, accepted \in BOOLEAN :
                              ModifyCurriculum(p, shape, accepted)
        \/ ModifyCurriculumWrite(p)
        \/ ExamFindProgress(p)
        \/ ExamInsertProgress(p)
        \/ ExamRefetchProgress(p)
        \/ ExamUpdateProgress(p)
        \/ ExamMarkSubmodule(p)
        \/ ExamUnlockNextModule(p)
        \/ RemedialModuleRead(p)
        \/ RemedialModuleWrite(p)
        \/ RemedialModuleSetFlag(p)

SpecPointers == Init /\ [][NextPointers]_vars

\* the course after creation or after one failed exam on its first module,
\* with the session's last two requests to come
InitBest ==
    /\ \E shape \in CourseShapes :
          /\ user_courses = generate_curriculum(shape)
          /\ nextId = Len(shape) + SumTo(shape, Len(shape)) + 1
          /\ module_progress \in {<<>>, <<FailedOnce(user_courses[1].moduleId)>>}
    /\ progress_tracking = <<>>
    /\ submodule_tests = TestsOf(user_courses, <<NewQuestion("multiple-choice", 1)>>)
    /\ module_exams = ExamsOf(user_courses, <<NewQuestion("multiple-choice", 1)>>)
    /\ pc = [p \in Procs |-> "idle"]
    /\ req = [p \in Procs |-> NoReq]
    /\ started = MaxRequests - 2
    /\ current = CurrentOf(user_courses)

\* exam submissions, made with no hint or one, graded and handled by two
\* workers at once
NextBest ==
    \E p \in Procs :
        \/ /\ Dispatch(p)
           /\ \E m \in ModuleIds(user_courses) :
               \E answers \in AnswerLists(QuestionsOf(FindExam(CourseId, m))),
                  hint_count \in 0..1 :
                  GradeModuleExam(p, m, answers, hint_count, NoGrade)
        \/ ExamFindProgress(p)
        \/ ExamInsertProgress(p)
        \/ ExamRefetchProgress(p)
        \/ ExamUpdateProgress(p)
        \/ ExamMarkSubmodule(p)
        \/ ExamUnlockNextModule(p)
        \/ RemedialModuleRead(p)
        \/ RemedialModuleWrite(p)
        \/ RemedialModuleSetFlag(p)

SpecBest == InitBest /\ [][NextBest]_vars

\* a course whose stored quizzes have one question, with either canonical
\* answer
InitShown ==
    /\ \E shape \in CourseShapes :
          /\ user_courses = generate_curriculum(shape)
          /\ nextId = Len(shape) + SumTo(shape, Len(shape)) + 1
    /\ progress_tracking = <<>>
    /\ module_progress = <<>>
    /\ \E v \in QuestionVariants :
          submodule_tests = TestsOf(user_courses,
                                    <<NewQuestion("multiple-choice", v)>>)
    /\ module_exams = <<>>
    /\ pc = [p \in Procs |-> "idle"]
    /\ req = [p \in Procs |-> NoReq]
    /\ started = 0
    /\ current = CurrentOf(user_courses)

\* get-test requests, quiz submissions and content completions handled one
\* after another
NextShown ==
    \E p \in Procs :
        \/ /\ Serial(p)
           /\ \E m \in ModuleIds(user_courses), s \in SubIds(user_courses),
                 has_content \in BOOLEAN :
                 GetSubmoduleTest(p, "user", m, s, has_content)
        \/ TestGenerate(p)
        \/ TestStore(p)
        \/ /\ Serial(p)
           /\ \E m \in ModuleIds(user_courses), s \in SubIds(user_courses),
                 passed \in BOOLEAN :
                 SubmitSubmoduleTest(p, "user", CourseId, m, s,
                                     AnswerCount(FindTest(CourseId, s)), passed)
        \/ QuizFindProgress(p)
        \/ QuizInsertProgress(p)
        \/ QuizRefetchProgress(p)
        \/ QuizUpdateProgress(p)
        \/ QuizUnlockNext(p)
        \/ QuizInsertRemedial(p)
        \/ QuizSetRemedialFlag(p)
        \/ QuizCheckModulePerformance(p)
        \/ Serial(p) /\ \E s \in SubIds(user_courses) :
                            CompleteSubmodule(p, "user", s)
        \/ CompleteReadCourse(p)
        \/ CompleteUnlockNext(p)

SpecShown == InitShown /\ [][NextShown]_vars

----------------------------------------------------------------------------
(* Vocabulary of the properties *)


SubOf(course, id) == AllSubs(course)[FindSubmodule(AllSubs(course), id)]

IsLockedSub(course, id) == SubOf(course, id).isLocked

ModuleLocks(course) ==
    [m \in ModuleIds(course) |-> course[FindModule(course, m)].isLocked]

\* the submodule after id in the course's linear order, NoId for the last one
SuccessorInOrder(course, id) ==
    LET subs == AllSubs(course)
        I == {i \in 1..Len(subs) : subs[i].subModuleId = id}
    IN IF I = {} \/ Min(I) = Len(subs) THEN NoId
       ELSE subs[Min(I) + 1].subModuleId

\* positions, in the submodule list subs, of the remedial submodules related to id
RemedialPositions(subs, id) ==
    {i \in 1..Len(subs) : subs[i].isRemedial /\ subs[i].relatedToSubModuleId = id}

\* the remedial submodules of the stored course related to submodule id
RemedialSubsOf(id) ==
    {s \in Range(AllSubs(user_courses)) :
        s.isRemedial /\ s.relatedToSubModuleId = id}

\* positions, in the stored module list, of the remedial modules of module id
RemedialModulePositions(id) ==
    {i \in 1..Len(user_courses) :
        user_courses[i].isRemedial /\ user_courses[i].parentModuleId = id}

Done(p, kind) == pc[p] = "done" /\ req[p].kind = kind /\ req[p].result = "ok"

\* the submodule list of module id in the stored course
StoredSubs(module_id) == user_courses[FindModule(user_courses, module_id)].subModules

StoredProgress(id) == CHOOSE d \in Range(progress_tracking) : d._id = id

StoredModuleProgress(id) == CHOOSE d \in Range(module_progress) : d._id = id

----------------------------------------------------------------------------
(* C1 *)

----------------------------------------------------------------------------
(* C2 *)

\* C2: after a failing quiz submission on S, handled one after another with
\* the other requests, the owning module's submodule list holds exactly one
\* remedial submodule related to S, right after S.
FailingQuizzesOneRemedial ==
    \A p \in Procs :
        (Done(p, "quiz") /\ ~req[p].passed) =>
            LET subs == StoredSubs(req[p].module_id)
                at == FindSubmodule(subs, req[p].submodule_id)
            IN RemedialPositions(subs, req[p].submodule_id) = {at + 1}

----------------------------------------------------------------------------
(* C3 *)

\* C3: whatever the interleaving of failing submissions, the course holds at
\* most one remedial submodule related to a submodule and at most one
\* remedial module for a module.
ConcurrentFailsOneRemedial ==
    /\ \A s \in SubIds(user_courses) : Cardinality(RemedialSubsOf(s)) <= 1
    /\ \A m \in ModuleIds(user_courses) : Cardinality(RemedialModulePositions(m)) <= 1

----------------------------------------------------------------------------
(* C4 *)

\* a failing exam submission has finished; the document it read had n attempts
FailedExamAfter(p, n) ==
    Done(p, "exam") /\ ~req[p].passed /\ req[p].progress.examAttempts = n

\* the remedial modules of module id are exactly one, right after the module
OneRemedialModuleAfter(id) ==
    RemedialModulePositions(id) = {FindModule(user_courses, id) + 1}

\* C4 as stated: when the second of two failing exam attempts on M has been
\* handled, exactly one remedial module of M sits right after M.
SecondFailedExamInsertsRemedial ==
    \A p \in Procs :
        (FailedExamAfter(p, 1) /\ ~req[p].progress.attemptHistory[1].passed) =>
            OneRemedialModuleAfter(req[p].module_id)

\* C4 amended: exam submissions handled one after another. A module with at
\* most one exam attempt has no remedial module. A failing attempt that
\* brings the count to 2 or more while remedialModuleGenerated is unset
\* inserts exactly one remedial module right after M when the Content
\* Generator call succeeds and none when it fails. A failing attempt that
\* finds the flag set inserts nothing, and no module ever has two.
ExamRemedialOnce ==
    /\ \A m \in ModuleIds(user_courses) :
          /\ Cardinality(RemedialModulePositions(m)) <= 1
          /\ (\A d \in Range(module_progress) :
                 d.moduleId = m => d.examAttempts <= 1)
                => RemedialModulePositions(m) = {}
    /\ \A p \in Procs :
          (Done(p, "exam") /\ ~req[p].passed) =>
              LET read == req[p].progress
                  m == req[p].module_id
              IN /\ read.examAttempts = 0 => req[p].remedial = NoId
                 /\ read.remedialModuleGenerated =>
                       req[p].remedial = NoId /\ OneRemedialModuleAfter(m)
                 /\ (read.examAttempts >= 1 /\ ~read.remedialModuleGenerated) =>
                       IF req[p].genFailed
                       THEN RemedialModulePositions(m) = {}
                       ELSE /\ OneRemedialModuleAfter(m)
                            /\ user_courses[FindModule(user_courses, m) + 1].moduleId
                                  = req[p].remedial

\* C4 witness: a third failing attempt has been handled after the second one
\* inserted the remedial module, and the module still has exactly one.
ThirdFailedExamWitness ==
    \E p \in Procs :
        /\ FailedExamAfter(p, 2)
        /\ req[p].progress.remedialModuleGenerated
        /\ \A i \in 1..2 : ~req[p].progress.attemptHistory[i].passed
        /\ OneRemedialModuleAfter(req[p].module_id)

----------------------------------------------------------------------------
(* C5 *)

\* C5 as stated: when the Content Generator call of a failing submission
\* failed, the course is what it was and the idempotency flag is unset.
GenerationFailureLeavesCourse ==
    \A p \in Procs :
        (pc[p] = "done" /\ req[p].genFailed) =>
            /\ user_courses = req[p].course
            /\ req[p].kind = "quiz" =>
                  ~StoredProgress(req[p].progress._id).remedialSubmoduleGenerated
            /\ req[p].kind = "exam" =>
                  ~StoredModuleProgress(req[p].progress._id).remedialModuleGenerated

\* C5 amended: requests handled one after another. In the exam path a failed
\* Content Generator call leaves the course unchanged and
\* remedialModuleGenerated unset, so the next failing attempt is due for
\* remediation again. In the quiz path a failed call is replaced by the fixed
\* fallback lesson: the remedial submodule is inserted and the flag is set.
\* In both paths the flag is written only after the insertion: a request about
\* to write it has its remedial node in the course, and a set flag comes with
\* a remedial node of that submodule or module.
GenerationFailureHandled ==
    /\ \A p \in Procs :
          (Done(p, "exam") /\ req[p].genFailed) =>
              LET d == StoredModuleProgress(req[p].progress._id)
              IN /\ user_courses = req[p].course
                 /\ ~d.remedialModuleGenerated
                 /\ RemedialModuleDue(d.examAttempts + 1, d)
    /\ \A p \in Procs :
          (Done(p, "quiz") /\ req[p].genFailed) =>
              /\ req[p].remedial \in SubIds(user_courses)
              /\ StoredProgress(req[p].progress._id).remedialSubmoduleGenerated
    /\ \A p \in Procs :
          /\ pc[p] = "q_flag" => req[p].remedial \in SubIds(user_courses)
          /\ pc[p] = "g_flag" => req[p].remedial \in ModuleIds(user_courses)
    /\ \A d \in Range(progress_tracking) :
          d.remedialSubmoduleGenerated => RemedialSubsOf(d.subModuleId) # {}
    /\ \A d \in Range(module_progress) :
          d.remedialModuleGenerated => RemedialModulePositions(d.moduleId) # {}

\* C5 witness: the Content Generator failed in the second failing exam
\* attempt, the request has finished and the module has no remedial module.
ExamGenerationFailedWitness ==
    \E p \in Procs :
        /\ FailedExamAfter(p, 1) /\ req[p].genFailed
        /\ RemedialModulePositions(req[p].module_id) = {}

----------------------------------------------------------------------------
(* C6 *)

\* C6: requests handled one after another, any of them possibly cut off
\* between two store writes and then sent again: when a failing submission
\* has been handled to its end, the course holds at most one remedial node
\* for its submodule or module.
RetriedFailureOneRemedial ==
    \A p \in Procs :
        /\ (Done(p, "quiz") /\ ~req[p].passed) =>
               Cardinality(RemedialSubsOf(req[p].submodule_id)) <= 1
        /\ (Done(p, "exam") /\ ~req[p].passed) =>
               Cardinality(RemedialModulePositions(req[p].module_id)) <= 1

----------------------------------------------------------------------------
(* C7 *)

\* C7: when a passing quiz submission (advance) and an exam submission that
\* inserted a remedial module have both finished, in whatever interleaving,
\* the submodule the advance unlocked is unlocked in the stored course and
\* the remedial module sits right after its parent.
AdvanceAndRemedialModuleBothKept ==
    \A p, q \in Procs :
        ( /\ Done(p, "quiz") /\ req[p].passed /\ req[p].nextSub # NoId
          /\ Done(q, "exam") /\ req[q].remedial # NoId ) =>
            /\ req[p].nextSub \in SubIds(user_courses)
            /\ ~IsLockedSub(user_courses, req[p].nextSub)
            /\ OneRemedialModuleAfter(req[q].module_id)

----------------------------------------------------------------------------
(* C8 *)

\* C8: whatever the interleaving of failing quiz submissions on different
\* submodules, every remedial submodule sits right after the submodule it is
\* related to (stated for courses with at most one remedial submodule per
\* submodule).
RemedialRightAfterRelated ==
    (\A s \in SubIds(user_courses) : Cardinality(RemedialSubsOf(s)) <= 1) =>
        \A i \in 1..Len(user_courses) :
            LET subs == user_courses[i].subModules
            IN \A j \in 1..Len(subs) :
                  subs[j].isRemedial =>
                      j >= 2 /\ subs[j - 1].subModuleId = subs[j].relatedToSubModuleId

----------------------------------------------------------------------------
(* C9 *)

----------------------------------------------------------------------------
(* C10 *)

\* a progress document of submodule id written by a passing exam on module m
MarkedViaExam(m, id) ==
    \E d \in Range(progress_tracking) :
        /\ d.userId = "user" /\ d.courseId /\ d.moduleId = m
        /\ d.subModuleId = id
        /\ d.contentCompleted /\ d.completedViaExam

\* the submodules of the request's module in the course the handler read
ReadSubs(p) == req[p].course[FindModule(req[p].course, req[p].module_id)].subModules

\* C10 as stated: after a passing exam on M every non-remedial submodule of
\* M has a progress record with contentCompleted, and no remedial submodule
\* of M has been marked by the exam.
ExamPassMarksNonRemedialOnly ==
    \A p \in Procs :
        (Done(p, "exam") /\ req[p].passed) =>
            \A s \in Range(ReadSubs(p)) :
                IF s.isRemedial
                THEN ~MarkedViaExam(req[p].module_id, s.subModuleId)
                ELSE MarkedViaExam(req[p].module_id, s.subModuleId)

\* every submodule of the request's module is already marked
AllMarked(p) ==
    \A s \in Range(ReadSubs(p)) : MarkedViaExam(req[p].module_id, s.subModuleId)

\* C10 amended: after a passing exam on M every submodule of M, remedial
\* ones included, has a progress record keyed by (user, course, M, submodule)
\* with contentCompleted set; and when every submodule of M is marked already
\* (a second passing exam), marking them again leaves progress_tracking as
\* it is.
ExamPassMarksAllSubmodules ==
    /\ [](\A p \in Procs : (Done(p, "exam") /\ req[p].passed) => AllMarked(p))
    /\ [][\A p \in Procs :
             (pc[p] = "e_mark" /\ AllMarked(p)) =>
                 progress_tracking' = progress_tracking]_vars

\* C10 witness: a second passing exam on a module with a remedial submodule
\* is about to mark the module's submodules, all marked by the first one.
SecondExamPassWitness ==
    \E p \in Procs :
        /\ pc[p] = "e_mark" /\ req[p].idx = 1
        /\ req[p].progress.examPassed
        /\ AllMarked(p)
        /\ \E s \in Range(ReadSubs(p)) : s.isRemedial

----------------------------------------------------------------------------
(* C11 *)

\* no module and no submodule of the stored course goes from unlocked to
\* locked in this step
NoRelock ==
    /\ \A s \in SubIds(user_courses) \cap SubIds(user_courses') :
          ~IsLockedSub(user_courses, s) => ~IsLockedSub(user_courses', s)
    /\ \A m \in ModuleIds(user_courses) \cap ModuleIds(user_courses') :
          ~ModuleLocks(user_courses)[m] => ~ModuleLocks(user_courses')[m]

\* C11: no step of a quiz submission, an exam submission, a content
\* completion or a remedial insertion changes the isLocked of an existing
\* node from false to true.
UnlockedStaysUnlocked == [][NoRelock]_vars

----------------------------------------------------------------------------
(* C12 *)

\* worker p takes the step in which a passing assessment unlocks the next node
PassingUnlockStep(p) ==
    /\ pc[p] \in {"q_unlock", "e_next"}
    /\ req[p].passed
    /\ pc'[p] # pc[p]

\* C12: a locked submodule becomes unlocked only in the unlock step of a
\* passing quiz or exam submission; content completion and failed
\* submissions unlock nothing.
UnlockOnlyByPassing ==
    [][(\E s \in SubIds(user_courses) \cap SubIds(user_courses') :
           IsLockedSub(user_courses, s) /\ ~IsLockedSub(user_courses', s))
       => \E p \in Procs : PassingUnlockStep(p)]_vars

----------------------------------------------------------------------------
(* C13 *)

\* module[0] and its submodule[0] are the only unlocked nodes of course
OnlyFirstUnlocked(course) ==
    \A i \in 1..Len(course) :
        /\ course[i].isLocked = (i > 1)
        /\ \A j \in 1..Len(course[i].subModules) :
              course[i].subModules[j].isLocked = ~(i = 1 /\ j = 1)

\* C13: right after course creation and right after a curriculum rebuild,
\* module[0] and its submodule[0] are unlocked and every other module and
\* submodule, the first submodule of each later module included, is locked.
CreatedOnlyFirstUnlocked ==
    (started = 0 \/ \E p \in Procs : Done(p, "modify")) =>
        OnlyFirstUnlocked(user_courses)

\* C13 witness: a rebuild has finished on a course in which content
\* completion had unlocked a further submodule; the new course has a later
\* module whose first submodule is locked.
RebuiltAfterUnlockWitness ==
    \E p \in Procs :
        /\ Done(p, "modify")
        /\ ~OnlyFirstUnlocked(req[p].course)
        /\ Len(user_courses) > 1
        /\ user_courses[2].subModules[1].isLocked

----------------------------------------------------------------------------
(* C17 *)

\* the learner a progress record belongs to: the userId stored in it, or,
\* for a record created by complete_submodule (which stores none), the
\* owner of the course the record names
LearnerOf(d) == IF d.userId = "absent" THEN "user" ELSE d.userId

\* C17: the store holds at most one progress record for each (user,
\* submodule) pair and at most one module-progress record for each (user,
\* module) pair.
OneRecordPerNode ==
    /\ \A i, j \in 1..Len(progress_tracking) :
          (/\ LearnerOf(progress_tracking[i]) = LearnerOf(progress_tracking[j])
           /\ progress_tracking[i].subModuleId = progress_tracking[j].subModuleId)
          => i = j
    /\ \A i, j \in 1..Len(module_progress) :
          (/\ module_progress[i].userId = module_progress[j].userId
           /\ module_progress[i].moduleId = module_progress[j].moduleId)
          => i = j

----------------------------------------------------------------------------
(* C14 *)

\* worker p receives a request of one of the kinds in this step
Submitted(p, kinds) ==
    /\ Idle(p)
    /\ started' = started + 1
    /\ req'[p].kind \in kinds

\* the question lists stored for the node the request of worker p names
NamedQuestions(r) ==
    IF r.kind = "quiz"
    THEN {d.questions : d \in {t \in Range(submodule_tests) :
                                  /\ t.userCourseId = r.course_id
                                  /\ t.subModuleId = r.submodule_id}}
    ELSE {d.questions : d \in {e \in Range(module_exams) :
                                  /\ e.userCourseId = r.course_id
                                  /\ e.moduleId = r.module_id}}

\* the course, the module and (for a quiz) the submodule the request names
\* are stored
NamedNodeStored(r) ==
    /\ r.course_id = CourseId
    /\ \E i \in 1..Len(user_courses) :
          /\ user_courses[i].moduleId = r.module_id
          /\ r.kind = "quiz" =>
                \E j \in 1..Len(user_courses[i].subModules) :
                    user_courses[i].subModules[j].subModuleId = r.submodule_id

Rejected(p, result) ==
    /\ pc'[p] = "done"
    /\ req'[p].result = result
    /\ UNCHANGED <<store, tests, current>>

----------------------------------------------------------------------------
(* C15 *)

MissingModuleWitness ==
    \E p \in Procs :
        /\ pc[p] = "done"
        /\ req[p].kind = "exam"
        /\ req[p].result = "not_found"
        /\ req[p].module_id = UnknownNodeId
        /\ module_progress # <<>>

----------------------------------------------------------------------------
(* C16 *)

\* worker p takes this step
Acts(p) == pc'[p] # pc[p] \/ req'[p] # req[p]

\* the progress records of the course's owner
OwnerProgress(coll) == {d \in Range(coll) : LearnerOf(d) = "user"}

\* C16: no step of a request made by another user changes the isLocked of
\* a node of the owner's course or any progress record of the owner.
OtherUserIsolated ==
    [][\A p \in Procs :
          (Acts(p) /\ req'[p].user = "other")
          => /\ \A s \in SubIds(user_courses) \cap SubIds(user_courses') :
                   IsLockedSub(user_courses', s) = IsLockedSub(user_courses, s)
             /\ \A m \in ModuleIds(user_courses) \cap ModuleIds(user_courses') :
                   ModuleLocks(user_courses')[m] = ModuleLocks(user_courses)[m]
             /\ OwnerProgress(progress_tracking') = OwnerProgress(progress_tracking)
             /\ OwnerProgress(module_progress') = OwnerProgress(module_progress)]_vars

----------------------------------------------------------------------------
(* C18 *)

\* C18: once a test or an exam with questions is stored for a node, no step
\* changes its questions, for any interleaving of get-test and get-exam
\* requests.
StoredQuestionsNeverChange ==
    [][/\ \A d \in Range(submodule_tests) :
             d.questions # <<>> =>
                \E e \in Range(submodule_tests') :
                    /\ e.subModuleId = d.subModuleId
                    /\ e.questions = d.questions
       /\ \A d \in Range(module_exams) :
             d.questions # <<>> =>
                \E e \in Range(module_exams') :
                    /\ e.moduleId = d.moduleId
                    /\ e.questions = d.questions]_vars

----------------------------------------------------------------------------
(* C19 *)

\* worker p's exam submission was graded
Graded(p) == req[p].kind = "exam" /\ req[p].scores # <<>>

\* C19: a submission on a stored fallback exam that gives every question its
\* canonical correctAnswer with no hint, while every Content Generator call
\* fails, is graded passed.
FallbackExamPassable ==
    \A p \in Procs :
        (/\ Graded(p)
         /\ FindExam(CourseId, req[p].module_id).questions = FallbackQuestions
         /\ \A i \in 1..Len(req[p].given) :
               req[p].given[i] = CanonicalAnswer(FallbackQuestions[i])
         /\ req[p].hint_count = 0
         /\ req[p].grade.failed)
        => req[p].passed

----------------------------------------------------------------------------
(* C20 *)

\* max(0, 1 - 0.10 h), in tenths
ClampedMultiplier(h) == IF h >= 10 THEN 0 ELSE 10 - h

\* C20: the score of every graded question is its raw score (the score
\* with no hint) times max(0, 1 - 0.10 h) for h hints, so never negative.
ScoreClampedAtZero ==
    \A p \in Procs :
        Graded(p) =>
            \A i \in 1..Len(req[p].scores) :
                LET question == FindExam(CourseId, req[p].module_id).questions[i]
                    raw == ScoreForQ(question, req[p].given[i], 0, req[p].grade)
                    h == req[p].hint_count
                IN /\ req[p].scores[i] >= 0
                   /\ 10 * req[p].scores[i] = raw * ClampedMultiplier(h)

----------------------------------------------------------------------------
(* C21 *)

\* the multi-select questions graded for worker p, as indices of its exam
GradedMultiSelect(p) ==
    {i \in 1..Len(req[p].scores) :
        FindExam(CourseId, req[p].module_id).questions[i].type = "multi-select"}

\* the correct set of question i of the exam worker p submitted
CanonicalOf(p, i) ==
    CorrectSet(FindExam(CourseId, req[p].module_id).questions[i].variant)

\* C21: for a multi-select question with a non-empty canonical set C and the
\* answer set A, the score before the hint penalty is 100 when A = C, 0 when
\* A and C are disjoint, and max(0, (|A \cap C| - |A \ C|) / |C|) x 100
\* otherwise; the question is marked correct only when A = C.
MultiSelectPartialCredit ==
    \A p \in Procs :
        Graded(p) =>
            \A i \in GradedMultiSelect(p) :
                LET A == req[p].given[i]
                    C == CanonicalOf(p, i)
                    picks == Cardinality(A \cap C) - Cardinality(A \ C)
                    m == 10 - req[p].hint_count
                IN C # {} =>
                      /\ req[p].correct[i] <=> A = C
                      /\ A = C => req[p].scores[i] = 100 * m
                      /\ A \cap C = {} => req[p].scores[i] = 0
                      /\ A # C =>
                            req[p].scores[i] * Cardinality(C) =
                               (IF picks > 0 THEN picks ELSE 0) * 100 * m

\* a multi-select question with four correct options was answered with
\* three of them and a wrong one
PartialCreditWitness ==
    \E p \in Procs :
        /\ Graded(p)
        /\ req[p].hint_count = 0
        /\ \E i \in GradedMultiSelect(p) :
              /\ Cardinality(CanonicalOf(p, i)) = 4
              /\ Cardinality(req[p].given[i] \cap CanonicalOf(p, i)) = 3
              /\ "x" \in req[p].given[i]
              /\ req[p].scores[i] = 500
              /\ ~req[p].correct[i]

----------------------------------------------------------------------------
(* C22 *)

\* C22: for a multi-select question whose canonical set is empty, the score
\* before the hint penalty is 0 for every answer, the empty answer included.
EmptyCanonicalScoresZero ==
    \A p \in Procs :
        Graded(p) =>
            \A i \in GradedMultiSelect(p) :
                CanonicalOf(p, i) = {} => req[p].scores[i] = 0

----------------------------------------------------------------------------
(* C23 *)

\* worker p's quiz submission was graded
GradedQuiz(p) == req[p].kind = "quiz" /\ req[p].given # <<>>

\* the number of questions of the submission worker p sent
QuestionCount(p) == Len(req[p].given)

\* the number of questions of worker p's submission marked correct
CorrectCount(p) ==
    Cardinality({i \in 1..Len(req[p].correct) : req[p].correct[i]})

\* C23: the score of a quiz with N questions is max(0, (correctCount / N) x
\* 100 - (0.10 x H / N) x 100), H being the hints used across all N
\* questions, answered correctly or not.
QuizScoreCountsAllHints ==
    \A p \in Procs :
        GradedQuiz(p) =>
            LET H == req[p].hint_count * QuestionCount(p)
                difference == 1000 * CorrectCount(p) - 100 * H
            IN req[p].total = IF difference > 0 THEN difference ELSE 0

----------------------------------------------------------------------------
(* C24 *)

\* C24: the overall score of an exam is the mean of the per-question
\* scores, and a quiz or an exam is passed exactly when its overall score is
\* at least 70.
PassedFromThreshold ==
    \A p \in Procs :
        (Graded(p) \/ GradedQuiz(p)) =>
            /\ Graded(p) =>
                  req[p].total = SumTo(req[p].scores, Len(req[p].scores))
            /\ req[p].passed <=> req[p].total >= 700 * QuestionCount(p)

\* a quiz with a score of exactly 70 was graded passed and took the
\* success path
ExactlySeventyWitness ==
    \E p \in Procs :
        /\ GradedQuiz(p)
        /\ req[p].total = 700 * QuestionCount(p)
        /\ req[p].passed
        /\ Done(p, "quiz")
        /\ req[p].action = "continue"

----------------------------------------------------------------------------
(* C25 *)

\* the questions of worker p's exam that are graded by a grading call
CallGraded(p) ==
    {i \in 1..Len(req[p].scores) :
        FindExam(CourseId, req[p].module_id).questions[i].type
            \notin {"multiple-choice", "multi-select"}}

\* the module_progress document of the module worker p's exam is about
ExamProgressOf(p) ==
    CHOOSE d \in Range(module_progress) :
        d.moduleId = req[p].module_id /\ d.userId = req[p].user

\* C25: when the grading calls of an exam submission fail, the questions
\* they were made for get score 0 and isCorrect false, a multiple-choice
\* question of the same exam gets 100 less the hint penalty for the correct
\* answer and 0 otherwise, and the finished submission has counted the
\* attempt and appended it to the history.
GraderFailureNotFatal ==
    \A p \in Procs :
        (Graded(p) /\ req[p].grade.failed) =>
            /\ \A i \in CallGraded(p) :
                  req[p].scores[i] = 0 /\ ~req[p].correct[i]
            /\ \A i \in (1..Len(req[p].scores)) \ CallGraded(p) :
                  /\ req[p].correct[i] <=> req[p].given[i] = {"a"}
                  /\ req[p].scores[i] =
                        IF req[p].given[i] = {"a"}
                        THEN 100 * (10 - req[p].hint_count) ELSE 0
            /\ Done(p, "exam") =>
                  /\ ExamProgressOf(p).examAttempts =
                        req[p].progress.examAttempts + 1
                  /\ Len(ExamProgressOf(p).attemptHistory) =
                        Len(req[p].progress.attemptHistory) + 1
                  /\ ExamProgressOf(p).attemptHistory
                        [Len(ExamProgressOf(p).attemptHistory)] =
                        [attemptNumber |-> ExamProgressOf(p).examAttempts,
                         passed |-> req[p].passed]

\* an exam of a multiple-choice and a short-answer question was submitted
\* with the first answered correctly, the grading call failed, and the
\* submission finished as a counted failed attempt
GraderFailedWitness ==
    \E p \in Procs :
        /\ Done(p, "exam")
        /\ req[p].grade.failed
        /\ req[p].hint_count = 0
        /\ req[p].scores = <<1000, 0>>
        /\ req[p].correct = <<TRUE, FALSE>>
        /\ ~req[p].passed
        /\ ExamProgressOf(p).examAttempts = 2

----------------------------------------------------------------------------
(* C26 *)

\* the submodules of course that are unlocked and whose quiz no document of
\* progress records as passed
CurrentSubmodules(course, progress) ==
    {s.subModuleId : s \in
        {t \in Range(AllSubs(course)) :
            /\ ~t.isLocked
            /\ ~\E d \in Range(progress) :
                  d.subModuleId = t.subModuleId /\ d.quizPassed}}

\* C26: while the first request of a session works on the only current
\* submodule of the course as created (nothing was revisited), no step of it
\* leaves the course with two current submodules: a remedial insertion and a
\* content completion keep "exactly one submodule is unlocked and not passed".
OneCurrentSubmodule ==
    [][\A p \in Procs :
          (/\ started = 1
           /\ pc'[p] # pc[p]
           /\ CurrentSubmodules(user_courses, progress_tracking)
                 = {req[p].submodule_id})
          => Cardinality(CurrentSubmodules(user_courses', progress_tracking'))
                 <= 1]_vars

----------------------------------------------------------------------------
(* C27 *)

\* C27: under any interleaving of exam submissions on one module, the
\* attempt history of every module_progress document is as long as its
\* examAttempts and carries the attempt numbers 1, 2, ..., n in list order.
AttemptHistoryNumbered ==
    \A d \in Range(module_progress) :
        /\ Len(d.attemptHistory) = d.examAttempts
        /\ \A i \in 1..Len(d.attemptHistory) :
              d.attemptHistory[i].attemptNumber = i

----------------------------------------------------------------------------
(* C28 *)

\* worker p has finished a quiz submission on a submodule of the named
\* module for which the course holds a remedial submodule
QuizAfterRemedial(p) ==
    /\ pc[p] = "done"
    /\ req[p].kind = "quiz"
    /\ FindModule(user_courses, req[p].module_id) # 0
    /\ FindSubmodule(StoredSubs(req[p].module_id), req[p].submodule_id) # 0
    /\ RemedialSubsOf(req[p].submodule_id) # {}

\* worker p has finished an exam submission on a module for which the
\* course holds a remedial module
ExamAfterRemedial(p) ==
    /\ pc[p] = "done"
    /\ req[p].kind = "exam"
    /\ RemedialModulePositions(req[p].module_id) # {}

\* C28: a quiz submission on a submodule that has a remedial submodule, and
\* an exam submission on a module that has a remedial module, is accepted;
\* a passing one is answered with action "continue" and is recorded as
\* passed, whatever has or has not been done with the remedial node.
RemedialDoesNotBlock ==
    \A p \in Procs :
        /\ QuizAfterRemedial(p) =>
              /\ req[p].result = "ok"
              /\ req[p].passed =>
                    /\ req[p].action = "continue"
                    /\ StoredProgress(req[p].progress._id).quizPassed
        /\ ExamAfterRemedial(p) =>
              /\ req[p].result = "ok"
              /\ req[p].passed =>
                    /\ req[p].action = "continue"
                    /\ StoredModuleProgress(req[p].progress._id).examPassed

\* a quiz was failed and its remedial submodule inserted; a later
\* submission on the same submodule passed and was answered "continue",
\* with no progress record for the remedial submodule
PassedAfterRemedialWitness ==
    \E p \in Procs :
        /\ QuizAfterRemedial(p)
        /\ req[p].passed
        /\ req[p].action = "continue"
        /\ StoredProgress(req[p].progress._id).quizPassed
        /\ StoredProgress(req[p].progress._id).submoduleFailCount >= 1
        /\ \A s \in RemedialSubsOf(req[p].submodule_id) :
              ~\E d \in Range(progress_tracking) : d.subModuleId = s.subModuleId

----------------------------------------------------------------------------
(* C29 *)

\* C29: the walk a passed quiz makes over the course its handler read is
\* strictly linear: the next submodule of the same module when there is
\* one, else the first submodule of the next module when there is a next
\* module, and none only for the last submodule of the last module.
StrictLinearWalk ==
    \A p \in Procs :
        (/\ pc[p] \in {"q_check", "done"}
         /\ req[p].kind = "quiz"
         /\ req[p].action = "continue") =>
            LET course == req[p].course
                mi == FindModule(course, req[p].module_id)
                submodules == course[mi].subModules
                ci == FindSubmodule(submodules, req[p].submodule_id)
            IN IF ci < Len(submodules)
               THEN req[p].nextSub = submodules[ci + 1].subModuleId
               ELSE IF mi < Len(course)
               THEN /\ course[mi + 1].subModules # <<>>
                    /\ req[p].nextSub = course[mi + 1].subModules[1].subModuleId
               ELSE req[p].nextSub = NoId

----------------------------------------------------------------------------
(* C30 *)

\* C30: the course's currentModuleId, when set, is the id of an unlocked
\* module of the stored module list, and its currentSubModuleId, when set,
\* the id of an unlocked submodule of it.
PointersReferenceUnlocked ==
    /\ current.currentModuleId # NoId =>
          \E i \in 1..Len(user_courses) :
              /\ user_courses[i].moduleId = current.currentModuleId
              /\ ~user_courses[i].isLocked
    /\ current.currentSubModuleId # NoId =>
          \E s \in Range(AllSubs(user_courses)) :
              /\ s.subModuleId = current.currentSubModuleId
              /\ ~s.isLocked

----------------------------------------------------------------------------
(* C31 *)

----------------------------------------------------------------------------
(* C32 *)

\* the submodules the course was created with
OriginalSubIds ==
    UNION {SubIds(generate_curriculum(shape)) : shape \in CourseShapes}

\* C32: after any quiz submissions, exam submissions and content
\* completions, a submodule the course was created with is unlocked only if
\* the submodule before it in the course's order is unlocked too.
UnlockedInOrder ==
    LET subs == AllSubs(user_courses)
    IN \A i \in 2..Len(subs) :
          (subs[i].subModuleId \in OriginalSubIds /\ ~subs[i].isLocked)
              => ~subs[i - 1].isLocked

----------------------------------------------------------------------------
(* C33 *)

\* C33: every unlocked submodule of the stored course belongs to an
\* unlocked module.
UnlockedSubmoduleInUnlockedModule ==
    \A i \in 1..Len(user_courses) :
        \A s \in Range(user_courses[i].subModules) :
            ~s.isLocked => ~user_courses[i].isLocked

----------------------------------------------------------------------------
(* C34 *)

\* position, in the submodule list subs, of submodule id when a remedial
\* submodule related to it comes right after it; 0 otherwise
BeforeItsRemedial(subs, id) ==
    LET i == FindSubmodule(subs, id)
    IN IF /\ i >= 1 /\ i < Len(subs)
          /\ subs[i + 1].isRemedial
          /\ subs[i + 1].relatedToSubModuleId = id
       THEN i ELSE 0

\* worker p's passed quiz was on a submodule S that had its remedial
\* submodule right after it in the course the handler read
PassedBeforeRemedial(p) ==
    /\ pc[p] \in {"q_check", "done"}
    /\ req[p].kind = "quiz"
    /\ req[p].action = "continue"
    /\ BeforeItsRemedial(req[p].course[FindModule(req[p].course,
                                                  req[p].module_id)].subModules,
                         req[p].submodule_id) # 0

\* a passed quiz on S, with remedial R right after S, names R as the next
\* submodule and leaves the lock of every other submodule as it was read
RemedialIsNext ==
    \A p \in Procs :
        PassedBeforeRemedial(p) =>
            LET subs == req[p].course[FindModule(req[p].course,
                                                 req[p].module_id)].subModules
                i == BeforeItsRemedial(subs, req[p].submodule_id)
            IN /\ req[p].nextSub = subs[i + 1].subModuleId
               /\ \A s \in Range(AllSubs(req[p].course)) :
                     s.subModuleId # req[p].nextSub =>
                         IsLockedSub(user_courses, s.subModuleId) = s.isLocked

\* a step unlocks a submodule that comes right after a remedial submodule
\* R only as part of a request made for R
SuccessorUnlockedFromRemedial ==
    \A i \in 1..Len(user_courses) :
        LET subs == user_courses[i].subModules
        IN \A j \in 2..Len(subs) :
              (/\ subs[j - 1].isRemedial
               /\ subs[j].isLocked
               /\ subs[j].subModuleId \in SubIds(user_courses')
               /\ ~IsLockedSub(user_courses', subs[j].subModuleId))
              => \E p \in Procs :
                    /\ req[p].submodule_id = subs[j - 1].subModuleId
                    /\ req[p].kind \in {"quiz", "complete"}

\* C34: with remedial R right after S, a passing quiz on S returns R as the
\* next submodule and leaves the lock of S's original successor as it was;
\* that successor is unlocked only by a later request on R.
RemedialTakesTheNextPlace ==
    []RemedialIsNext /\ [][SuccessorUnlockedFromRemedial]_vars

\* S1 was failed, its remedial R inserted, then S1 was passed: R is the next
\* submodule returned and S2, after R, is still locked
PassedToRemedialWitness ==
    \E p \in Procs :
        /\ Done(p, "quiz")
        /\ PassedBeforeRemedial(p)
        /\ LET subs == StoredSubs(req[p].module_id)
               i == BeforeItsRemedial(subs, req[p].submodule_id)
           IN /\ i # 0
              /\ i + 2 <= Len(subs)
              /\ req[p].nextSub = subs[i + 1].subModuleId
              /\ subs[i + 2].isLocked

----------------------------------------------------------------------------
(* C35 *)

\* C35: no step takes quizPassed of a progress document, or examPassed of a
\* module_progress document, from true back to false.
PassFlagsSticky ==
    [][/\ \A i \in 1..Len(progress_tracking) :
             progress_tracking[i].quizPassed =>
                 /\ i <= Len(progress_tracking')
                 /\ progress_tracking'[i]._id = progress_tracking[i]._id
                 /\ progress_tracking'[i].quizPassed
       /\ \A i \in 1..Len(module_progress) :
             module_progress[i].examPassed =>
                 /\ i <= Len(module_progress')
                 /\ module_progress'[i]._id = module_progress[i]._id
                 /\ module_progress'[i].examPassed]_vars

\* a failing quiz submission has finished on a submodule whose progress
\* document said quizPassed when the handler read it, and it still does
FailedAfterPassWitness ==
    \E p \in Procs :
        /\ Done(p, "quiz")
        /\ ~req[p].passed
        /\ req[p].progress.quizPassed
        /\ StoredProgress(req[p].progress._id).quizPassed
        /\ StoredProgress(req[p].progress._id).testAttempts
               = req[p].progress.testAttempts + 1

----------------------------------------------------------------------------
(* C36 *)

\* C36: no step takes the status of a progress document from "completed" to
\* another value.
CompletedStaysCompleted ==
    [][\A i \in 1..Len(progress_tracking) :
          progress_tracking[i].status = "completed" =>
              /\ i <= Len(progress_tracking')
              /\ progress_tracking'[i].status = "completed"]_vars

----------------------------------------------------------------------------
(* C37 *)

\* C37: the step of a quiz submission that inserts a remedial submodule is
\* taken only while the submodule's progress document does not say
\* quizPassed, and the step of an exam submission that inserts a remedial
\* module only while the module_progress document does not say examPassed.
RemedialOnlyBeforePass ==
    [][\A p \in Procs :
          /\ (pc[p] = "q_push" /\ user_courses' # user_courses) =>
                ~StoredProgress(req[p].progress._id).quizPassed
          /\ (pc[p] = "g_write" /\ user_courses' # user_courses) =>
                ~StoredModuleProgress(req[p].progress._id).examPassed]_vars

----------------------------------------------------------------------------
(* C38 *)

\* no step lowers the bestExamScore of a module_progress document
BestScoreNeverDecreases ==
    \A i \in 1..Len(module_progress) :
        /\ i <= Len(module_progress')
        /\ module_progress'[i].bestExamScore >= module_progress[i].bestExamScore

\* with every submission finished, the stored best score of a module is not
\* below the score of any finished submission on it
BestScoreCoversAttempts ==
    (\A q \in Procs : Idle(q)) =>
        \A p \in Procs :
            Done(p, "exam") =>
                \A d \in Range(module_progress) :
                    d.moduleId = req[p].module_id =>
                        d.bestExamScore >= ScoreOf(req[p].total, req[p].answers)

\* C38: under any interleaving of exam submissions on one module, the
\* stored bestExamScore never decreases and, once the submissions have
\* finished, is not below the score of any of them.
BestScoreIsMaximum ==
    []BestScoreCoversAttempts /\ [][BestScoreNeverDecreases]_vars

----------------------------------------------------------------------------
(* C39 *)

\* the questions worker p's get-test response shows carry a correctAnswer
ShowsAnswers(p) ==
    \E i \in 1..Len(req[p].test_data) :
        "correctAnswer" \in DOMAIN req[p].test_data[i]

\* the question list qs with the canonical answer of every question
\* replaced by that of variant v
WithVariant(qs, v) == [i \in 1..Len(qs) |-> [qs[i] EXCEPT !.variant = v]]

====
